---- MODULE Spec2Model ----
(***************************************************************************)
(* Proof-of-History engine (poh/src/poh.rs), its records and verifiers,    *)
(* and the hash primitive they are built on (lib/src/hash.rs).             *)
(*                                                                         *)
(* Digests are symbolic: a 32-byte value is either a literal byte array    *)
(* or the digest of something, and two digests are equal exactly when they *)
(* were computed by the same algorithm from the same input (the digest is  *)
(* collision-free).  Everything built on the digest (chain extension, its  *)
(* unrolled loop, chain verification, the byte comparison, the engine's    *)
(* tick, the verifiers) is computed the way the code computes it.          *)
(***************************************************************************)
EXTENDS Integers, Sequences, FiniteSets, TLC

VARIABLES
    hasher,     \* a Hasher instance: [algorithm]
    hcall,      \* the last call made on the hasher: operation, arguments, result
    poh,        \* the engine (PoH struct); start_time is the origin of clock
    clock,      \* microseconds elapsed since poh.start_time, as the u64 cast reads them
    timing,     \* how that clock behaves around each tick of the run
    records,    \* the Records returned by the engine so far, in emission order
    calls,      \* the event argument of every tick so far (None for next_rev)
    last,       \* the last call on the engine or a verifier: operation, input, result
    poh2,       \* a second engine built from the same seed
    clock2,     \* its clock
    timing2,    \* how its clock behaves
    records2,   \* the Records it returned
    handoff,    \* the Records a consumer holds, and what verifying them returned
    worker,     \* a Native thread worker and the threads it spawned
    gossip      \* the gossip peers (Protocol structs) and what they broadcast

vars == <<hasher, hcall, poh, clock, timing, records, calls, last,
          poh2, clock2, timing2, records2, handoff, worker, gossip>>

(***************************************************************************)
(* Bounds of the model.                                                    *)
(***************************************************************************)
\* u64 values live in 0..U64_MAX; the checker's integers are narrower than 64 bits.
U64_MAX == 536870911
\* Ticks of one engine in a run that keeps every clock and event choice open.
MaxTicks == 3
\* Largest iteration count handed to extend_hash_chain on its own.
MaxIter == 17
\* Largest iteration count handed to verify_hash_chain on its own.
MaxVerifyIter == 2
\* Calls made on one Hasher whose algorithm is switched in between.
MaxSwitchCalls == 4
\* Times a consumer verifies the Records handed to it.
MaxVerifies == 2
\* Largest Config.max_threads of a thread worker.
MaxThreadLimit == 2
\* Calls made on one thread worker and its handles.
MaxWorkerCalls == 6
\* Bytes of a TopicId.
TopicLen == 2
\* Most messages of one peer followed on the gossip network.
MaxSent == 2

(***************************************************************************)
(* Timing constants (metronome).                                           *)
(***************************************************************************)
DEFAULT_SECONDS_PER_DAY == 24 * 60 * 60
DEFAULT_REVS_PER_SECOND == 160
DEFAULT_REVS_PER_DAY == DEFAULT_REVS_PER_SECOND * DEFAULT_SECONDS_PER_DAY
DEFAULT_MS_PER_REV_rounded_up ==
    (1000 + DEFAULT_REVS_PER_SECOND - 1) \div DEFAULT_REVS_PER_SECOND
DEFAULT_MS_PER_REV == 1000 \div DEFAULT_REVS_PER_SECOND
DEFAULT_US_TOLERANCE_PER_REV == 250
DEFAULT_US_PER_REV == (DEFAULT_MS_PER_REV * 1000) + DEFAULT_US_TOLERANCE_PER_REV
DEFAULT_REVS_PER_PHASE == 64
DEFAULT_HASHES_PER_SECOND == 2000000
DEFAULT_HASHES_PER_REV == DEFAULT_HASHES_PER_SECOND \div DEFAULT_REVS_PER_SECOND
DEFAULT_MS_PER_PHASE == (1000 * DEFAULT_REVS_PER_PHASE) \div DEFAULT_REVS_PER_SECOND
DEFAULT_PHASES_PER_CYCLE == (2 * DEFAULT_REVS_PER_DAY) \div DEFAULT_REVS_PER_PHASE
DEFAULT_SPINLOCK_THRESHOLD_US == 250

(***************************************************************************)
(* Option<T>: None, or Some(x).                                            *)
(***************************************************************************)
None == <<>>
Some(x) == <<x>>
IsSome(o) == Len(o) = 1
Unwrap(o) == o[1]

(***************************************************************************)
(* u64 arithmetic.                                                         *)
(***************************************************************************)
saturating_add_unchecked(a, b) == a + b
saturating_add(a, b) == IF a > U64_MAX - b THEN U64_MAX ELSE a + b
saturating_sub(a, b) == IF a < b THEN 0 ELSE a - b
\* checked_add: Some(a + b), or None on overflow.
checked_add(a, b) == IF a > U64_MAX - b THEN None ELSE Some(a + b)

(***************************************************************************)
(* Algorithm (lib/src/hash.rs).                                            *)
(***************************************************************************)
SHA256 == "SHA256"
BLAKE3 == "BLAKE3"
Algorithm == {SHA256, BLAKE3}
\* #[default] SHA256
AlgorithmDefault == SHA256

AlgorithmFromU8_default_blake3(value) == IF value = 0 THEN SHA256 ELSE BLAKE3
\* impl From<u8> for Algorithm
AlgorithmFromU8(value) == IF value = 1 THEN BLAKE3 ELSE SHA256

\* impl From<Algorithm> for u8
AlgorithmToU8(algorithm) == IF algorithm = SHA256 THEN 0 ELSE 1

\* Algorithm::name
AlgorithmName(algorithm) == IF algorithm = SHA256 THEN "SHA-256" ELSE "BLAKE3"

(***************************************************************************)
(* 32-byte values.  Literal(data) is the byte array data itself; the other *)
(* values are digests: "adv" is the digest, n times over, of the 32 bytes  *)
(* of prev alone, "emb" the digest of prev followed by the bytes data.     *)
(***************************************************************************)
HASH_LEN == 32
Literal(data) == [op |-> "bytes", data |-> data]
IsLiteral(x) == x.op = "bytes"

\* The digest, under algorithm alg, of the bytes of x alone.
Digest(alg, x) ==
    IF x.op = "adv" /\ x.alg = alg
    THEN [x EXCEPT !.n = @ + 1]
    ELSE [op |-> "adv", alg |-> alg, n |-> 1, prev |-> x]

\* The digest of the bytes of x followed by the bytes data.  Appending no byte
\* leaves the input of the digest as it was; bytes appended to a literal make a
\* longer literal.
DigestConcat(alg, x, data) ==
    IF data = <<>> THEN Digest(alg, x)
    ELSE IF IsLiteral(x) THEN Digest(alg, Literal(x.data \o data))
    ELSE [op |-> "emb", alg |-> alg, data |-> data, prev |-> x]

\* Byte i (1..HASH_LEN) of a 32-byte value: a literal's own byte, or the i-th
\* byte of a digest, which two distinct digests do not share.
\* A digest with one byte flipped ("flip") keeps the other bytes of the digest.
ByteAt(x, i) ==
    IF IsLiteral(x) THEN [byte |-> x.data[i]]
    ELSE IF x.op = "flip" /\ i # x.index THEN [digest |-> x.prev, index |-> i]
    ELSE [digest |-> x, index |-> i]

(***************************************************************************)
(* Hasher (lib/src/hash.rs).                                               *)
(***************************************************************************)
\* Hasher::new
HasherNew(algorithm) == [algorithm |-> algorithm]
\* #[derive(Default)]
HasherDefault == [algorithm |-> AlgorithmDefault]

set_algorithm_sticky(self, algorithm) ==
    IF self.algorithm = BLAKE3 THEN self ELSE [self EXCEPT !.algorithm = algorithm]

\* Hasher::set_algorithm
set_algorithm(self, algorithm) == [self EXCEPT !.algorithm = algorithm]

\* Hasher::algorithm
HasherAlgorithm(self) == self.algorithm

\* Hasher::algorithm_name
algorithm_name(self) == AlgorithmName(self.algorithm)

\* Hasher::hash
hash(self, data) == Digest(self.algorithm, Literal(data))

\* Hasher::embed_data
embed_data(self, previous, data) == DigestConcat(self.algorithm, previous, data)

\* Hasher::previous_hash: the digest of the 32 bytes of h alone, Digest(self.algorithm, h)
\* written out.
previous_hash(self, h) ==
    IF h.op = "adv" /\ h.alg = self.algorithm
    THEN [h EXCEPT !.n = @ + 1]
    ELSE [op |-> "adv", alg |-> self.algorithm, n |-> 1, prev |-> h]

\* One pass of the unrolled main loop of extend_hash_chain, on the loop state
\* st = [cur, i, brk]: leave the loop when i.checked_add(8) overflows or next_i
\* exceeds iterations, else eight chain steps and i = next_i.
MainPass(self, st, iterations) ==
    IF st.i > U64_MAX - 8 \/ st.i + 8 > iterations
    THEN [st EXCEPT !.brk = TRUE]
    ELSE [cur |-> previous_hash(self, previous_hash(self, previous_hash(self,
                  previous_hash(self, previous_hash(self, previous_hash(self,
                  previous_hash(self, previous_hash(self, st.cur)))))))),
          i |-> st.i + 8,
          brk |-> FALSE]

\* The main loop, run for at most `passes` passes.  The passes run one after the
\* other; they are grouped by halves to keep the evaluation shallow.
RECURSIVE MainLoop(_, _, _, _)
MainLoop(self, st, iterations, passes) ==
    IF st.brk \/ passes = 0 THEN st
    ELSE IF passes = 1 THEN MainPass(self, st, iterations)
    ELSE LET mid == MainLoop(self, st, iterations, passes \div 2) IN
         IF mid.brk THEN mid
         ELSE MainLoop(self, mid, iterations, passes - passes \div 2)

StepPass_no_exit(self, st, iterations) ==
    IF st.i >= iterations THEN st
    ELSE [cur |-> previous_hash(self, st.cur), i |-> st.i + 1, brk |-> FALSE]

\* One pass of a `for _ in i..iterations` loop: one chain step.
StepPass(self, st, iterations) ==
    IF st.i >= iterations THEN [st EXCEPT !.brk = TRUE]
    ELSE [cur |-> previous_hash(self, st.cur), i |-> st.i + 1, brk |-> FALSE]

RECURSIVE StepLoop(_, _, _, _)
StepLoop(self, st, iterations, passes) ==
    IF st.brk \/ passes = 0 THEN st
    ELSE IF passes = 1 THEN StepPass(self, st, iterations)
    ELSE LET mid == StepLoop(self, st, iterations, passes \div 2) IN
         IF mid.brk THEN mid
         ELSE StepLoop(self, mid, iterations, passes - passes \div 2)

extend_hash_chain_short_skipped(self, previous, iterations) ==
    LET s0 == [cur |-> previous, i |-> 0, brk |-> FALSE] IN
    IF iterations < 8
    THEN previous
    ELSE LET main == MainLoop(self, s0, iterations, (iterations \div 8) + 1) IN
         StepLoop(self, [main EXCEPT !.brk = FALSE], iterations, 8).cur

extend_hash_chain_no_remainder(self, previous, iterations) ==
    LET s0 == [cur |-> previous, i |-> 0, brk |-> FALSE] IN
    IF iterations < 8
    THEN StepLoop(self, s0, iterations, iterations + 1).cur
    ELSE MainLoop(self, s0, iterations, (iterations \div 8) + 1).cur

\* Hasher::extend_hash_chain: the short path below 8 iterations, else the
\* unrolled main loop and then the remaining iterations.
extend_hash_chain(self, previous, iterations) ==
    LET s0 == [cur |-> previous, i |-> 0, brk |-> FALSE] IN
    IF iterations < 8
    THEN StepLoop(self, s0, iterations, iterations + 1).cur
    ELSE LET main == MainLoop(self, s0, iterations, (iterations \div 8) + 1) IN
         StepLoop(self, [main EXCEPT !.brk = FALSE], iterations, 8).cur

XorAccumulate_early_exit(a, b, i, hi, st) ==
    LET differ == {j \in i..hi : ByteAt(a, j) # ByteAt(b, j)}
        stop == IF differ = {} THEN hi ELSE CHOOSE j \in differ : \A k \in differ : j <= k
    IN  [result |-> IF differ = {} THEN st.result ELSE 1,
         visited |-> st.visited \o [j \in 1..(stop - i + 1) |-> i + j - 1]]

\* The loop of constant_time_eq over the byte positions i..hi: result |= a[i] ^ b[i].
\* The accumulator is kept as 0 or "some bit set": the XOR of two bytes is 0
\* exactly when they are equal.  st = [result, visited]: the accumulator and the
\* positions the loop body has run for, in order.
RECURSIVE XorAccumulate(_, _, _, _, _)
XorAccumulate(a, b, i, hi, st) ==
    IF i > hi THEN st
    ELSE XorAccumulate(a, b, i + 1, hi,
                       [result |-> IF ByteAt(a, i) = ByteAt(b, i) THEN st.result ELSE 1,
                        visited |-> Append(st.visited, i)])

\* Hasher::constant_time_eq, with the positions its loop visited.
CompareRun(a, b) ==
    LET st == XorAccumulate(a, b, 1, HASH_LEN, [result |-> 0, visited |-> <<>>])
    IN  [equal |-> st.result = 0, visited |-> st.visited]

\* Hasher::constant_time_eq
constant_time_eq(a, b) == CompareRun(a, b).equal

verify_hash_chain_embed_last(self, previous, next, iterations, event_data) ==
    LET extended == extend_hash_chain(self, previous, iterations)
        expected == IF IsSome(event_data)
                    THEN embed_data(self, extended, Unwrap(event_data))
                    ELSE extended
    IN  constant_time_eq(expected, next)

\* Hasher::verify_hash_chain
verify_hash_chain(self, previous, next, iterations, event_data) ==
    LET embedded == IF IsSome(event_data)
                    THEN embed_data(self, previous, Unwrap(event_data))
                    ELSE previous
        expected == extend_hash_chain(self, embedded, iterations)
    IN  constant_time_eq(expected, next)

(***************************************************************************)
(* n sequential applications of previous_hash.                             *)
(***************************************************************************)
RECURSIVE NaiveChain(_, _, _)
NaiveChain(self, h, n) ==
    IF n = 0 THEN h ELSE previous_hash(self, NaiveChain(self, h, n - 1))

(***************************************************************************)
(* Inputs.                                                                 *)
(***************************************************************************)
Bytes == 0..255
\* Event payloads: the empty payload and a one-byte payload.
Events == {<<>>, <<7>>}
EventArgs == {None} \cup {Some(e) : e \in Events}
\* [b'0'; 64], the seed of the engine tests
TestSeed == [i \in 1..64 |-> 48]
\* Seeds of any length, the empty seed included.
Seeds == {<<>>, TestSeed}

ZeroHash == Literal([i \in 1..HASH_LEN |-> 0])
\* [0u8; 32] with the last byte set to 1
LastByteOne == Literal([i \in 1..HASH_LEN |-> IF i = HASH_LEN THEN 1 ELSE 0])
\* [0u8; 32] with the first byte set to 1
FirstByteOne == Literal([i \in 1..HASH_LEN |-> IF i = 1 THEN 1 ELSE 0])
\* 32-byte values handed to the hasher: literals and digests of both algorithms.
HashInputs ==
    {ZeroHash, LastByteOne}
        \cup {hash(HasherNew(a), s) : a \in Algorithm, s \in {TestSeed}}

\* Candidate values for the claimed next hash of verify_hash_chain(previous, _,
\* iterations, event_data): chains of every nearby length from previous, from
\* previous with each payload embedded first, payloads embedded after the chain,
\* and literals.
ClaimedHashes(self, previous, iterations) ==
    LET lens == 0..(iterations + 1)
        starts == {previous} \cup {embed_data(self, previous, e) : e \in Events}
        chains == {NaiveChain(self, s, m) : s \in starts, m \in lens}
    IN  chains
            \cup {embed_data(self, NaiveChain(self, previous, m), e) : m \in lens, e \in Events}
            \cup {ZeroHash, LastByteOne}

(***************************************************************************)
(* The hash primitive on its own.                                          *)
(***************************************************************************)
NoCall == [op |-> "none"]
NoEngine == [state |-> "none"]
\* Nothing handed to a consumer, no thread worker, no gossip peer.
HostIdle ==
    /\ handoff = [upto |-> 0, results |-> <<>>] /\ worker = [state |-> "none"]
    /\ gossip = [state |-> "none"]

\* The calls a run of the hash primitive may make on its hasher.
HasherCalls(self) ==
    {[op |-> "set_algorithm", value |-> v] : v \in Bytes}
        \cup {[op |-> "extend_hash_chain", previous |-> p, iterations |-> n] :
                p \in HashInputs, n \in 0..MaxIter}
        \cup UNION {{[op |-> "verify_hash_chain", previous |-> p, next |-> c,
                      iterations |-> n, event_data |-> e] :
                        c \in ClaimedHashes(self, p, n), e \in EventArgs} :
                    p \in HashInputs, n \in 0..MaxVerifyIter}
        \cup {[op |-> "constant_time_eq", a |-> x, b |-> y] :
                x \in HashInputs \cup {FirstByteOne}, y \in HashInputs \cup {FirstByteOne}}

\* A hasher of either algorithm (Hasher::new) and the call about to be made on it.
InitHash ==
    /\ hasher \in {HasherNew(a) : a \in Algorithm}
    /\ hcall \in {[call |-> c, done |-> FALSE] : c \in HasherCalls(hasher)}
    /\ poh = NoEngine /\ clock = 0 /\ timing = <<>>
    /\ records = <<>> /\ calls = <<>> /\ last = NoCall
    /\ poh2 = NoEngine /\ clock2 = 0 /\ timing2 = <<>> /\ records2 = <<>>
    /\ HostIdle

EngineUnchanged == UNCHANGED <<poh, clock, timing, records, calls, last,
                               poh2, clock2, timing2, records2, handoff, worker, gossip>>

\* hasher.set_algorithm(Algorithm::from(value)), then algorithm() and algorithm_name()
SetAlgorithm ==
    /\ ~hcall.done /\ hcall.call.op = "set_algorithm"
    /\ hasher' = set_algorithm(hasher, AlgorithmFromU8(hcall.call.value))
    /\ hcall' = [call |-> hcall.call, done |-> TRUE,
                 algorithm |-> HasherAlgorithm(hasher'),
                 name |-> algorithm_name(hasher')]
    /\ EngineUnchanged

\* hasher.extend_hash_chain(previous, iterations)
ExtendHashChain ==
    /\ ~hcall.done /\ hcall.call.op = "extend_hash_chain"
    /\ hcall' = [call |-> hcall.call, done |-> TRUE,
                 result |-> extend_hash_chain(hasher, hcall.call.previous,
                                              hcall.call.iterations)]
    /\ UNCHANGED hasher
    /\ EngineUnchanged

\* hasher.verify_hash_chain(previous, next, iterations, event_data)
VerifyHashChain ==
    /\ ~hcall.done /\ hcall.call.op = "verify_hash_chain"
    /\ hcall' = [call |-> hcall.call, done |-> TRUE,
                 result |-> verify_hash_chain(hasher, hcall.call.previous, hcall.call.next,
                                              hcall.call.iterations, hcall.call.event_data)]
    /\ UNCHANGED hasher
    /\ EngineUnchanged

\* hasher.constant_time_eq(a, b), the last step of verify_hash_chain
ConstantTimeEq ==
    /\ ~hcall.done /\ hcall.call.op = "constant_time_eq"
    /\ hcall' = [call |-> hcall.call, done |-> TRUE,
                 result |-> constant_time_eq(hcall.call.a, hcall.call.b),
                 visited |-> CompareRun(hcall.call.a, hcall.call.b).visited]
    /\ UNCHANGED hasher
    /\ EngineUnchanged

NextHash ==
    \/ SetAlgorithm
    \/ ExtendHashChain
    \/ VerifyHashChain
    \/ ConstantTimeEq

SpecHash == InitHash /\ [][NextHash]_vars

(***************************************************************************)
(* C3. Chain equivalence: extend_hash_chain(h, n) is n sequential          *)
(* applications of previous_hash to h, under both algorithms and for every *)
(* n across the unrolling boundary; with n = 0 it returns h itself.        *)
(***************************************************************************)
C3_ChainEquivalence ==
    (hcall.done /\ hcall.call.op = "extend_hash_chain") =>
        /\ hcall.result = NaiveChain(hasher, hcall.call.previous, hcall.call.iterations)
        /\ (hcall.call.iterations = 0 => hcall.result = hcall.call.previous)

\* An extension that ran the unrolled loop twice and then the remainder loop.
C3_Witness ==
    /\ hcall.done /\ hcall.call.op = "extend_hash_chain"
    /\ hcall.call.iterations = 17
    /\ hasher.algorithm = BLAKE3
    /\ hcall.result = NaiveChain(hasher, hcall.call.previous, 17)
    /\ hcall.result # NaiveChain(hasher, hcall.call.previous, 16)

(***************************************************************************)
(* C36. extend_hash_chain composes additively: extending h by a and the    *)
(* result by b gives what extending h by a + b gives, for every split of   *)
(* a + b, those with a, b or a + b on either side of the 8-iteration       *)
(* unrolling included.                                                     *)
(***************************************************************************)
C36_ExtendAdditive ==
    (hcall.done /\ hcall.call.op = "extend_hash_chain") =>
        \A a \in 0..hcall.call.iterations :
            extend_hash_chain(hasher,
                              extend_hash_chain(hasher, hcall.call.previous, a),
                              hcall.call.iterations - a) = hcall.result

\* 17 iterations on a digest, split as 5 + 12 (short path, then the unrolled loop
\* and the remainder loop) and as 9 + 8.
C36_Witness ==
    /\ hcall.done /\ hcall.call.op = "extend_hash_chain"
    /\ hcall.call.iterations = 17
    /\ ~IsLiteral(hcall.call.previous)
    /\ hcall.result =
            extend_hash_chain(hasher, extend_hash_chain(hasher, hcall.call.previous, 5), 12)
    /\ hcall.result =
            extend_hash_chain(hasher, extend_hash_chain(hasher, hcall.call.previous, 9), 8)
    /\ hcall.result # extend_hash_chain(hasher, hcall.call.previous, 12)

(***************************************************************************)
(* C4. verify_hash_chain(prev, claimed, n, data) is true exactly when      *)
(* claimed is the n-fold chain from prev with the event data, if any,      *)
(* embedded first; with n = 0 and no data, exactly when claimed = prev.    *)
(***************************************************************************)
C4_Expected ==
    LET c == hcall.call
        start == IF IsSome(c.event_data)
                 THEN embed_data(hasher, c.previous, Unwrap(c.event_data))
                 ELSE c.previous
    IN  NaiveChain(hasher, start, c.iterations)

C4_VerifyChainIff ==
    (hcall.done /\ hcall.call.op = "verify_hash_chain") =>
        /\ hcall.result = (hcall.call.next = C4_Expected)
        /\ (hcall.call.iterations = 0 /\ hcall.call.event_data = None
                => hcall.result = (hcall.call.next = hcall.call.previous))

\* A chain with a non-empty payload accepted, where embedding the payload after
\* the extension would have given another hash.
C4_Witness ==
    /\ hcall.done /\ hcall.call.op = "verify_hash_chain"
    /\ hcall.call.event_data = Some(<<7>>)
    /\ hcall.call.iterations = 2
    /\ ~IsLiteral(hcall.call.previous)
    /\ hcall.result = TRUE
    /\ hcall.call.next # embed_data(hasher, NaiveChain(hasher, hcall.call.previous, 2), <<7>>)

\* The same call rejecting the hash that has the payload embedded last.
C4_WitnessReject ==
    /\ hcall.done /\ hcall.call.op = "verify_hash_chain"
    /\ hcall.call.event_data = Some(<<7>>)
    /\ hcall.call.iterations = 2
    /\ hcall.call.next = embed_data(hasher, NaiveChain(hasher, hcall.call.previous, 2), <<7>>)
    /\ hcall.result = FALSE

(***************************************************************************)
(* C10. Decoding an algorithm selector byte never fails: 1 selects BLAKE3, *)
(* 0 and every value 2..255 select SHA-256, the default, and after the     *)
(* selection the hasher reports that algorithm and its name.               *)
(***************************************************************************)
C10_SelectorTotal ==
    (hcall.done /\ hcall.call.op = "set_algorithm") =>
        LET v == hcall.call.value IN
        /\ hasher.algorithm \in Algorithm
        /\ hcall.algorithm = hasher.algorithm
        /\ (v = 0 => hasher.algorithm = SHA256 /\ hasher.algorithm = AlgorithmDefault)
        /\ (v = 1 => hasher.algorithm = BLAKE3 /\ hcall.name = "BLAKE3")
        /\ (v \in 2..255 =>
                /\ hasher.algorithm = SHA256
                /\ hasher.algorithm = AlgorithmDefault
                /\ hcall.name = "SHA-256")

\* Selecting code 99 on a BLAKE3 hasher left it on SHA-256.
C10_Witness ==
    /\ hcall.done /\ hcall.call.op = "set_algorithm"
    /\ hcall.call.value = 99
    /\ hasher.algorithm = SHA256
    /\ hcall.name = "SHA-256"

(***************************************************************************)
(* C11. The byte comparison used by verify_hash_chain takes the same steps *)
(* for every pair of 32-byte inputs: it visits all 32 positions in order,  *)
(* with no early exit, whether or where the inputs differ, and reports     *)
(* equality exactly when no position differs.                              *)
(***************************************************************************)
C11_ConstantTimeSteps ==
    (hcall.done /\ hcall.call.op = "constant_time_eq") =>
        /\ hcall.visited = [i \in 1..HASH_LEN |-> i]
        /\ hcall.result = (hcall.call.a = hcall.call.b)

\* Two inputs that differ in their first byte only have been compared.
C11_Witness ==
    /\ hcall.done /\ hcall.call.op = "constant_time_eq"
    /\ hcall.call.a = ZeroHash /\ hcall.call.b = FirstByteOne
    /\ Len(hcall.visited) = HASH_LEN
    /\ hcall.result = FALSE

(***************************************************************************)
(* One Hasher used across set_algorithm calls: calls logs, in order, its   *)
(* construction, every switch and every digest it computed.                *)
(***************************************************************************)
SMALL_ITERATIONS == 10
HashOps == {"hash", "embed_data", "previous_hash", "extend_hash_chain"}

\* What hasher self returns for operation op on the inputs of the hasher tests.
HashOp(self, op) ==
    CASE op = "hash" -> hash(self, TestSeed)
      [] op = "embed_data" -> embed_data(self, ZeroHash, <<7>>)
      [] op = "previous_hash" -> previous_hash(self, ZeroHash)
      [] op = "extend_hash_chain" -> extend_hash_chain(self, ZeroHash, SMALL_ITERATIONS)

InitSwitch ==
    /\ \E a \in Algorithm :
            /\ hasher = HasherNew(a)
            /\ calls = <<[op |-> "new", algorithm |-> a]>>
    /\ hcall = NoCall
    /\ poh = NoEngine /\ clock = 0 /\ timing = <<>>
    /\ records = <<>> /\ last = NoCall
    /\ poh2 = NoEngine /\ clock2 = 0 /\ timing2 = <<>> /\ records2 = <<>>
    /\ HostIdle

\* hasher.set_algorithm(a), then hasher.algorithm()
SwitchAlgorithm ==
    /\ Len(calls) <= MaxSwitchCalls
    /\ \E a \in Algorithm :
            /\ hasher' = set_algorithm(hasher, a)
            /\ calls' = Append(calls, [op |-> "set_algorithm", algorithm |-> a,
                                       reported |-> HasherAlgorithm(hasher')])
    /\ UNCHANGED <<hcall, poh, clock, timing, records, last,
                   poh2, clock2, timing2, records2, handoff, worker, gossip>>

\* hasher.hash(..), embed_data(..), previous_hash(..) or extend_hash_chain(..)
SwitchHash ==
    /\ Len(calls) <= MaxSwitchCalls
    /\ \E op \in HashOps :
            calls' = Append(calls, [op |-> op, result |-> HashOp(hasher, op)])
    /\ UNCHANGED <<hasher, hcall, poh, clock, timing, records, last,
                   poh2, clock2, timing2, records2, handoff, worker, gossip>>

NextSwitch ==
    \/ SwitchAlgorithm
    \/ SwitchHash

SpecSwitch == InitSwitch /\ [][NextSwitch]_vars

(***************************************************************************)
(* C24. After any sequence of set_algorithm calls, algorithm() returns the *)
(* argument of the last call, and every later hash, embed_data,            *)
(* previous_hash and extend_hash_chain result equals what a freshly        *)
(* constructed Hasher of that algorithm gives for the same inputs;         *)
(* switching to B and back to A reproduces the hashes computed under A     *)
(* before the switch.                                                      *)
(***************************************************************************)
\* The algorithm the caller chose last before call k: the argument of the latest
\* set_algorithm, or of Hasher::new.
RECURSIVE ChosenBefore(_)
ChosenBefore(k) ==
    IF calls[k - 1].op \in {"new", "set_algorithm"} THEN calls[k - 1].algorithm
    ELSE ChosenBefore(k - 1)

C24_NoHiddenState ==
    /\ HasherAlgorithm(hasher) = ChosenBefore(Len(calls) + 1)
    /\ \A k \in 2..Len(calls) :
            IF calls[k].op = "set_algorithm"
            THEN calls[k].reported = calls[k].algorithm
            ELSE /\ calls[k].result = HashOp(HasherNew(ChosenBefore(k)), calls[k].op)
                 /\ \A j \in 2..(k - 1) :
                        (calls[j].op = calls[k].op /\ ChosenBefore(j) = ChosenBefore(k))
                            => calls[j].result = calls[k].result

\* A chain extended under SHA-256, a switch to BLAKE3 and back, and the same
\* chain extended again.
C24_Witness ==
    /\ Len(calls) >= 5
    /\ calls[1] = [op |-> "new", algorithm |-> SHA256]
    /\ calls[2].op = "extend_hash_chain"
    /\ calls[3].op = "set_algorithm" /\ calls[3].algorithm = BLAKE3
    /\ calls[4].op = "set_algorithm" /\ calls[4].algorithm = SHA256
    /\ calls[5].op = "extend_hash_chain"
    /\ calls[5].result = calls[2].result

(***************************************************************************)
(* PoH engine (poh/src/poh.rs).                                            *)
(***************************************************************************)
PoHNew_skip_empty_seed(seed) ==
    [current_hash |-> IF seed = <<>> THEN Literal([i \in 1..HASH_LEN |-> 0])
                      ELSE hash(HasherDefault, seed),
     rev_count |-> 0,
     phase_count |-> 0,
     cycle_count |-> 0,
     next_rev_target_us |-> DEFAULT_US_PER_REV]

\* PoH::new; start_time = Instant::now() is the origin of the engine's clock.
PoHNew(seed) ==
    [current_hash |-> hash(HasherDefault, seed),
     rev_count |-> 0,
     phase_count |-> 0,
     cycle_count |-> 0,
     next_rev_target_us |-> DEFAULT_US_PER_REV]

enforce_timing_spin_at_threshold(self, elapsed_us) ==
    LET target_us == self.next_rev_target_us IN
    IF elapsed_us < target_us
    THEN LET sleep_us == saturating_sub(target_us, elapsed_us) IN
         IF sleep_us <= DEFAULT_SPINLOCK_THRESHOLD_US
         THEN [mode |-> "spin", sleep_us |-> sleep_us]
         ELSE [mode |-> "sleep", sleep_us |-> sleep_us]
    ELSE [mode |-> "none", sleep_us |-> 0]

enforce_timing_no_spin(self, elapsed_us) ==
    LET target_us == self.next_rev_target_us IN
    IF elapsed_us < target_us
    THEN LET sleep_us == saturating_sub(target_us, elapsed_us) IN
         IF sleep_us < DEFAULT_SPINLOCK_THRESHOLD_US
         THEN [mode |-> "none", sleep_us |-> 0]
         ELSE [mode |-> "sleep", sleep_us |-> sleep_us]
    ELSE [mode |-> "none", sleep_us |-> 0]

enforce_timing_abs_diff(self, elapsed_us) ==
    LET target_us == self.next_rev_target_us
        sleep_us == IF elapsed_us < target_us THEN target_us - elapsed_us
                    ELSE elapsed_us - target_us
    IN  IF sleep_us = 0 THEN [mode |-> "none", sleep_us |-> 0]
        ELSE IF sleep_us < DEFAULT_SPINLOCK_THRESHOLD_US
        THEN [mode |-> "spin", sleep_us |-> sleep_us]
        ELSE [mode |-> "sleep", sleep_us |-> sleep_us]

\* PoH::enforce_timing, entered when the clock reads elapsed_us: what the pacing
\* step does, and the wait it computed.
enforce_timing(self, elapsed_us) ==
    LET target_us == self.next_rev_target_us IN
    IF elapsed_us < target_us
    THEN LET sleep_us == saturating_sub(target_us, elapsed_us) IN
         IF sleep_us < DEFAULT_SPINLOCK_THRESHOLD_US
         THEN [mode |-> "spin", sleep_us |-> sleep_us]
         ELSE [mode |-> "sleep", sleep_us |-> sleep_us]
    ELSE [mode |-> "none", sleep_us |-> 0]

\* The clock reading at which enforce_timing returns: at once when there is
\* nothing to wait for; else when the spin loop sees spin_until (computed from a
\* fresh clock reading) reached, or when thread::sleep(sleep_us) returns; either
\* may come back `over` microseconds late.
PacedClock(pace, elapsed_us, over) ==
    IF pace.mode = "none" THEN elapsed_us
    ELSE elapsed_us + pace.sleep_us + over

HashStep_embed_always(self, event_data) ==
    LET hasher0 == HasherDefault
        embedded == embed_data(hasher0, self.current_hash,
                               IF IsSome(event_data) THEN Unwrap(event_data) ELSE <<>>)
    IN  extend_hash_chain(hasher0, embedded, DEFAULT_HASHES_PER_REV)

HashStep_embed_last(self, event_data) ==
    LET hasher0 == HasherDefault
        extended == extend_hash_chain(hasher0, self.current_hash, DEFAULT_HASHES_PER_REV)
    IN  IF IsSome(event_data)
        THEN embed_data(hasher0, extended, Unwrap(event_data))
        ELSE extended

\* PoH::core, the hash transition: embed the event data, if any, then extend the
\* chain by DEFAULT_HASHES_PER_REV.
HashStep(self, event_data) ==
    LET hasher0 == HasherDefault
        embedded == IF IsSome(event_data)
                    THEN embed_data(hasher0, self.current_hash, Unwrap(event_data))
                    ELSE self.current_hash
    IN  extend_hash_chain(hasher0, embedded, DEFAULT_HASHES_PER_REV)

MakeRecord_phase_from_count(self, current_hash, elapsed_us, event_data) ==
    [hash |-> current_hash,
     rev_index |-> self.rev_count,
     phase_index |-> self.phase_count,
     cycle_index |-> self.cycle_count,
     timestamp_ms |-> elapsed_us \div 1000,
     event |-> event_data]

MakeRecord_index_from_clock(self, current_hash, elapsed_us, event_data) ==
    [hash |-> current_hash,
     rev_index |-> elapsed_us \div DEFAULT_US_PER_REV,
     phase_index |-> (elapsed_us \div DEFAULT_US_PER_REV) \div DEFAULT_REVS_PER_PHASE,
     cycle_index |-> ((elapsed_us \div DEFAULT_US_PER_REV) \div DEFAULT_REVS_PER_PHASE)
                        \div DEFAULT_PHASES_PER_CYCLE,
     timestamp_ms |-> elapsed_us \div 1000,
     event |-> event_data]

MakeRecord_time_since_deadline(self, current_hash, elapsed_us, event_data) ==
    [hash |-> current_hash,
     rev_index |-> self.rev_count,
     phase_index |-> self.rev_count \div DEFAULT_REVS_PER_PHASE,
     cycle_index |-> (self.rev_count \div DEFAULT_REVS_PER_PHASE) \div DEFAULT_PHASES_PER_CYCLE,
     timestamp_ms |-> saturating_sub(elapsed_us,
                        saturating_sub(self.next_rev_target_us, DEFAULT_US_PER_REV)) \div 1000,
     event |-> event_data]

MakeRecord_phase_early(self, current_hash, elapsed_us, event_data) ==
    [hash |-> current_hash,
     rev_index |-> self.rev_count,
     phase_index |-> (self.rev_count + 1) \div DEFAULT_REVS_PER_PHASE,
     cycle_index |-> ((self.rev_count + 1) \div DEFAULT_REVS_PER_PHASE)
                        \div DEFAULT_PHASES_PER_CYCLE,
     timestamp_ms |-> elapsed_us \div 1000,
     event |-> event_data]

MakeRecord_event_dropped(self, current_hash, elapsed_us, event_data) ==
    [hash |-> current_hash,
     rev_index |-> self.rev_count,
     phase_index |-> self.rev_count \div DEFAULT_REVS_PER_PHASE,
     cycle_index |-> (self.rev_count \div DEFAULT_REVS_PER_PHASE) \div DEFAULT_PHASES_PER_CYCLE,
     timestamp_ms |-> elapsed_us \div 1000,
     event |-> IF IsSome(event_data) /\ Unwrap(event_data) = <<>> THEN None ELSE event_data]

\* PoH::core, the Record of this tick: the indices derived from rev_count before
\* its increment, the elapsed milliseconds, a copy of the event bytes.
MakeRecord(self, current_hash, elapsed_us, event_data) ==
    LET rev_index == self.rev_count
        phase_index == rev_index \div DEFAULT_REVS_PER_PHASE
        cycle_index == phase_index \div DEFAULT_PHASES_PER_CYCLE
    IN  [hash |-> current_hash,
         rev_index |-> rev_index,
         phase_index |-> phase_index,
         cycle_index |-> cycle_index,
         timestamp_ms |-> elapsed_us \div 1000,
         event |-> event_data]

AdvanceCounters_keep_tip(self, record) ==
    LET rev_count == self.rev_count + 1
        phase_end == rev_count % DEFAULT_REVS_PER_PHASE = 0
        phase_count == IF phase_end THEN self.phase_count + 1 ELSE self.phase_count
        cycle_start == record.phase_index % DEFAULT_PHASES_PER_CYCLE = 0 /\ phase_end
    IN  [current_hash |-> self.current_hash,
         rev_count |-> rev_count,
         phase_count |-> IF cycle_start THEN 0 ELSE phase_count,
         cycle_count |-> IF cycle_start THEN record.cycle_index ELSE self.cycle_count,
         next_rev_target_us |-> saturating_add(self.next_rev_target_us, DEFAULT_US_PER_REV)]

AdvanceCounters_cycle_at_boundary(self, record) ==
    LET rev_count == self.rev_count + 1
        phase_end == rev_count % DEFAULT_REVS_PER_PHASE = 0
        phase_count == IF phase_end THEN self.phase_count + 1 ELSE self.phase_count
        cycle_start == (rev_count \div DEFAULT_REVS_PER_PHASE) % DEFAULT_PHASES_PER_CYCLE = 0
                       /\ phase_end
    IN  [current_hash |-> record.hash,
         rev_count |-> rev_count,
         phase_count |-> IF cycle_start THEN 0 ELSE phase_count,
         cycle_count |-> IF cycle_start
                         THEN (rev_count \div DEFAULT_REVS_PER_PHASE) \div DEFAULT_PHASES_PER_CYCLE
                         ELSE self.cycle_count,
         next_rev_target_us |-> saturating_add(self.next_rev_target_us, DEFAULT_US_PER_REV)]

AdvanceCounters_deadline_from_now(self, record) ==
    LET rev_count == self.rev_count + 1
        phase_end == rev_count % DEFAULT_REVS_PER_PHASE = 0
        phase_count == IF phase_end THEN self.phase_count + 1 ELSE self.phase_count
        cycle_start == record.phase_index % DEFAULT_PHASES_PER_CYCLE = 0 /\ phase_end
    IN  [current_hash |-> record.hash,
         rev_count |-> rev_count,
         phase_count |-> IF cycle_start THEN 0 ELSE phase_count,
         cycle_count |-> IF cycle_start THEN record.cycle_index ELSE self.cycle_count,
         next_rev_target_us |-> saturating_add(record.timestamp_ms * 1000, DEFAULT_US_PER_REV)]

AdvanceCounters_skip_on_event(self, record) ==
    [self EXCEPT !.current_hash = record.hash,
                 !.rev_count = IF IsSome(record.event) THEN @ ELSE @ + 1,
                 !.next_rev_target_us = saturating_add(@, DEFAULT_US_PER_REV)]

\* PoH::core after the Record is built: rev_count + 1, phase_count + 1 at a phase
\* end, cycle_count and phase_count reset at a cycle boundary, the next deadline.
\* Called only when rev_count + 1 does not overflow.
AdvanceCounters(self, record) ==
    LET rev_count == self.rev_count + 1
        phase_end == rev_count % DEFAULT_REVS_PER_PHASE = 0
        phase_count == IF phase_end THEN self.phase_count + 1 ELSE self.phase_count
        cycle_start == record.phase_index % DEFAULT_PHASES_PER_CYCLE = 0 /\ phase_end
    IN  [current_hash |-> record.hash,
         rev_count |-> rev_count,
         phase_count |-> IF cycle_start THEN 0 ELSE phase_count,
         cycle_count |-> IF cycle_start THEN record.cycle_index ELSE self.cycle_count,
         next_rev_target_us |-> saturating_add(self.next_rev_target_us, DEFAULT_US_PER_REV)]

CoreFinish_wrapping(self, record) ==
    [panic |-> FALSE,
     poh |-> AdvanceCounters([self EXCEPT !.rev_count = IF @ = U64_MAX THEN -1 ELSE @], record),
     record |-> record]

\* PoH::core from the counter updates on, given the Record built.  A counter
\* overflow panics (checked_add(1).expect): the hash is already written, no
\* Record is returned; rev_count is checked first, phase_count at a phase end,
\* when rev_count is already incremented.
CoreFinish(self, record) ==
    LET rev_overflow == ~IsSome(checked_add(self.rev_count, 1))
        phase_end == (self.rev_count + 1) % DEFAULT_REVS_PER_PHASE = 0
        phase_overflow == phase_end /\ ~IsSome(checked_add(self.phase_count, 1))
    IN  IF rev_overflow
        THEN [panic |-> TRUE, poh |-> [self EXCEPT !.current_hash = record.hash]]
        ELSE IF phase_overflow
        THEN [panic |-> TRUE, poh |-> [self EXCEPT !.current_hash = record.hash,
                                                   !.rev_count = @ + 1]]
        ELSE [panic |-> FALSE, poh |-> AdvanceCounters(self, record), record |-> record]

\* PoH::core once enforce_timing has returned; elapsed_us is the clock reading
\* taken for the Record.
core(self, event_data, elapsed_us) ==
    CoreFinish(self, MakeRecord(self, HashStep(self, event_data), elapsed_us, event_data))

(***************************************************************************)
(* Verifiers (poh/src/poh.rs).                                             *)
(***************************************************************************)
\* prev.rev_index.saturating_add(1), the rev_index PoH::verify_records expects next.
NextRevIndex(prev) == saturating_add(prev.rev_index, 1)

PairValid_time_ordered(prev, curr) ==
    /\ verify_hash_chain(HasherDefault, prev.hash, curr.hash, DEFAULT_HASHES_PER_REV,
                         curr.event)
    /\ curr.rev_index = saturating_add(prev.rev_index, 1)
    /\ curr.phase_index = curr.rev_index \div DEFAULT_REVS_PER_PHASE
    /\ curr.cycle_index =
            curr.rev_index \div (DEFAULT_REVS_PER_PHASE * DEFAULT_PHASES_PER_CYCLE)
    /\ curr.timestamp_ms >= prev.timestamp_ms

\* One window (prev, curr) of PoH::verify_records.
PairValid(prev, curr) ==
    /\ verify_hash_chain(HasherDefault, prev.hash, curr.hash, DEFAULT_HASHES_PER_REV,
                         curr.event)
    /\ LET rev_index_valid == curr.rev_index = NextRevIndex(prev)
           phase_index_valid == curr.phase_index = curr.rev_index \div DEFAULT_REVS_PER_PHASE
           cycle_valid == curr.cycle_index =
                curr.rev_index \div (DEFAULT_REVS_PER_PHASE * DEFAULT_PHASES_PER_CYCLE)
       IN  rev_index_valid /\ phase_index_valid /\ cycle_valid

verify_records_from_genesis(recs) ==
    IF recs = <<>> THEN FALSE
    ELSE /\ recs[1].rev_index = 0
         /\ \A i \in 1..(Len(recs) - 1) : PairValid(recs[i], recs[i + 1])

verify_records_first_checked(recs) ==
    IF recs = <<>> THEN FALSE
    ELSE /\ recs[1].phase_index = recs[1].rev_index \div DEFAULT_REVS_PER_PHASE
         /\ \A i \in 1..(Len(recs) - 1) : PairValid(recs[i], recs[i + 1])

verify_records_empty_ok(recs) ==
    \A i \in 1..(Len(recs) - 1) : PairValid(recs[i], recs[i + 1])

\* PoH::verify_records
verify_records(recs) ==
    IF recs = <<>> THEN FALSE
    ELSE \A i \in 1..(Len(recs) - 1) : PairValid(recs[i], recs[i + 1])

checked_mul(a, b) == IF b # 0 /\ a > U64_MAX \div b THEN None ELSE Some(a * b)

ALLOWED_DRIFT == 8

\* The u64 values PoH::verify_timestamps computes for position i (from 0).
TimestampBounds(first_timestamp, i) ==
    LET product == checked_mul(i, DEFAULT_US_PER_REV)
        expected_timestamp ==
            saturating_add(first_timestamp,
                           (IF IsSome(product) THEN Unwrap(product) ELSE 0) \div 1000)
    IN  [expected_timestamp |-> expected_timestamp,
         lower_bound |-> saturating_sub(expected_timestamp, ALLOWED_DRIFT),
         upper_bound |-> saturating_add(expected_timestamp, ALLOWED_DRIFT)]

TimestampValid_exclusive(first_timestamp, i, record) ==
    LET product == checked_mul(i, DEFAULT_US_PER_REV)
        expected_timestamp ==
            saturating_add(first_timestamp,
                           (IF IsSome(product) THEN Unwrap(product) ELSE 0) \div 1000)
        lower_bound == saturating_sub(expected_timestamp, ALLOWED_DRIFT)
        upper_bound == saturating_add(expected_timestamp, ALLOWED_DRIFT)
    IN  ~(record.timestamp_ms <= lower_bound \/ record.timestamp_ms >= upper_bound)

\* PoH::verify_timestamps; position i counts from 0.
TimestampValid(first_timestamp, i, record) ==
    LET bounds == TimestampBounds(first_timestamp, i)
        too_early == record.timestamp_ms < bounds.lower_bound
        too_late == record.timestamp_ms > bounds.upper_bound
    IN  ~(too_early \/ too_late)

\* PoH::verify_timestamps
verify_timestamps(recs, log_failures) ==
    IF recs = <<>> THEN FALSE
    ELSE \A i \in 1..Len(recs) : TimestampValid(recs[1].timestamp_ms, i - 1, recs[i])

(***************************************************************************)
(* The monotonic clock around a tick (Instant::elapsed in enforce_timing   *)
(* and core).                                                              *)
(***************************************************************************)
\* What the clock does around one tick: microseconds between the last reading
\* and the entry into enforce_timing (gap), by how much a wait overshoots (over),
\* and how long the hashing takes (work).
OnTime == [gap |-> 0, over |-> 0, work |-> 0]
SlowHash == [gap |-> 0, over |-> 200, work |-> 6100]

\* The caller lets one full period pass between two ticks.
Waiting == [gap |-> DEFAULT_US_PER_REV, over |-> 0, work |-> 0]

\* The clock of a run: what it does around tick 0, 1, 2, ..., repeated cyclically.
Punctual == <<OnTime>>
Late == <<SlowHash>>
Jitter == <<SlowHash, OnTime>>
Idle == <<Waiting>>
Clocks == {Punctual, Late, Jitter, Idle}
\* The clocks a pair of engines is run on.
TwinClocks == {Punctual, Late, Jitter}
TimingAt(script, k) == script[(k % Len(script)) + 1]

\* One tick of engine self, whose clock reads clk and behaves as t around the
\* tick: enforce_timing, then core.  entry_us is the reading enforce_timing takes
\* (elapsed().as_micros() as u64: the low 64 bits), target_us the deadline it
\* compares with, start_us the time when it returns and the hashing starts,
\* clock the reading after the Record is built.
RunTick(self, clk, t, event_data) ==
    LET elapsed_us == (clk + t.gap) % (U64_MAX + 1)
        pace == enforce_timing(self, elapsed_us)
        stamp_us == PacedClock(pace, elapsed_us, t.over) + t.work
    IN  [entry_us |-> elapsed_us, target_us |-> self.next_rev_target_us, pace |-> pace,
         start_us |-> PacedClock(pace, elapsed_us, t.over),
         clock |-> stamp_us % (U64_MAX + 1), out |-> core(self, event_data, stamp_us)]

(***************************************************************************)
(* One engine driven by any mix of next_rev and insert_event, and the      *)
(* verifiers applied to what it has emitted.                               *)
(***************************************************************************)
HasherIdle == hasher = HasherDefault /\ hcall = NoCall
TwinIdle ==
    /\ poh2 = NoEngine /\ clock2 = 0 /\ timing2 = <<>> /\ records2 = <<>>
    /\ HostIdle
TickOps == {"none", "next_rev", "insert_event"}

\* PoH::new(seed) on a clock of its own.
Init ==
    /\ HasherIdle
    /\ \E seed \in Seeds : poh = PoHNew(seed)
    /\ timing \in Clocks
    /\ clock = 0 /\ records = <<>> /\ calls = <<>> /\ last = NoCall
    /\ TwinIdle

Tick_shared_hash(event_data) ==
    /\ last.op \in TickOps
    /\ \E r \in {RunTick(poh, clock, TimingAt(timing, Len(calls)), event_data)} :
            /\ poh' = r.out.poh
            /\ clock' = r.clock
            /\ records' = IF r.out.panic THEN records
                          ELSE Append([k \in 1..Len(records) |->
                                        [records[k] EXCEPT !.hash = r.out.poh.current_hash]],
                                      r.out.record)
            /\ calls' = Append(calls, event_data)
            /\ last' = [op |-> IF IsSome(event_data) THEN "insert_event" ELSE "next_rev",
                        entry_us |-> r.entry_us, target_us |-> r.target_us,
                        pace |-> r.pace, start_us |-> r.start_us, panic |-> r.out.panic]
    /\ UNCHANGED <<hasher, hcall, timing, poh2, clock2, timing2, records2, handoff, worker, gossip>>

\* One tick of the engine.  The verifiers are applied to the list once it is
\* complete: no tick follows a verification.
Tick(event_data) ==
    /\ last.op \in TickOps
    /\ \E r \in {RunTick(poh, clock, TimingAt(timing, Len(calls)), event_data)} :
            /\ poh' = r.out.poh
            /\ clock' = r.clock
            /\ records' = IF r.out.panic THEN records ELSE Append(records, r.out.record)
            /\ calls' = Append(calls, event_data)
            /\ last' = [op |-> IF IsSome(event_data) THEN "insert_event" ELSE "next_rev",
                        entry_us |-> r.entry_us, target_us |-> r.target_us,
                        pace |-> r.pace, start_us |-> r.start_us, panic |-> r.out.panic]
    /\ UNCHANGED <<hasher, hcall, timing, poh2, clock2, timing2, records2, handoff, worker, gossip>>

\* PoH::next_rev
next_rev ==
    /\ Len(calls) < MaxTicks
    /\ Tick(None)

\* PoH::insert_event
insert_event ==
    /\ Len(calls) < MaxTicks
    /\ \E e \in Events : Tick(Some(e))

EngineIdle == UNCHANGED <<hasher, hcall, poh, clock, timing, records, calls,
                          poh2, clock2, timing2, records2, handoff, worker, gossip>>

\* PoH::verify_records(&records) on the Records emitted so far
VerifyRecords ==
    /\ last.op \in TickOps
    /\ last' = [op |-> "verify_records", input |-> records,
                result |-> verify_records(records)]
    /\ EngineIdle

\* PoH::verify_timestamps(&records, log_failures) on the Records emitted so far
VerifyTimestamps ==
    /\ last.op \in TickOps
    /\ \E log_failures \in BOOLEAN :
            last' = [op |-> "verify_timestamps", input |-> records,
                     log_failures |-> log_failures,
                     result |-> verify_timestamps(records, log_failures)]
    /\ EngineIdle

Next ==
    \/ next_rev
    \/ insert_event
    \/ VerifyRecords
    \/ VerifyTimestamps

Spec == Init /\ [][Next]_vars

(***************************************************************************)
(* C1. Whatever the seed, the mix of next_rev and insert_event calls, the  *)
(* payloads and the clock, verify_records returns true on the Records an   *)
(* engine has returned, taken in emission order.                           *)
(***************************************************************************)
C1_EmittedRecordsVerify ==
    (last.op = "verify_records" /\ last.input # <<>>) => last.result

\* verify_records has accepted three Records of an engine whose clock runs late
\* on some ticks: a plain one, one with a payload, one with the empty payload.
C1_Witness ==
    /\ last.op = "verify_records"
    /\ timing = Jitter
    /\ Len(last.input) = 3
    /\ last.input[1].event = None
    /\ last.input[2].event = Some(<<7>>)
    /\ last.input[3].event = Some(<<>>)
    /\ last.result

(***************************************************************************)
(* C28. With h the chain tip before a tick, a plain tick leaves            *)
(* current_hash at h advanced by exactly DEFAULT_HASHES_PER_REV digest     *)
(* steps; a tick with event E leaves it at the digest of h followed by E,  *)
(* advanced by exactly DEFAULT_HASHES_PER_REV steps: the event is embedded *)
(* once, before the extension, and nothing is embedded on a plain tick.    *)
(***************************************************************************)
C28_HashTransition ==
    [][Len(calls') = Len(calls) + 1 =>
        LET event_data == calls'[Len(calls')]
            h == poh.current_hash
            from == IF IsSome(event_data)
                    THEN DigestConcat(SHA256, h, Unwrap(event_data))
                    ELSE h
            base == IF from.op = "adv" /\ from.alg = SHA256 THEN from.prev ELSE from
            done == IF from.op = "adv" /\ from.alg = SHA256 THEN from.n ELSE 0
        IN  poh'.current_hash =
                [op |-> "adv", alg |-> SHA256, n |-> done + DEFAULT_HASHES_PER_REV, prev |-> base]]_vars

\* A plain tick, then a tick with a payload: the tip is 12,500 steps over the
\* embedding of the payload into the tip of the plain tick, itself 12,500 steps
\* over the digest of the seed.
C28_Witness ==
    /\ Len(calls) = 2
    /\ calls[1] = None /\ calls[2] = Some(<<7>>)
    /\ poh.current_hash.op = "adv" /\ poh.current_hash.n = 12500
    /\ poh.current_hash.prev.op = "emb"
    /\ poh.current_hash.prev.data = <<7>>
    /\ poh.current_hash.prev.prev.n = 12501

(***************************************************************************)
(* C6. The k-th Record (from 0) of a fresh engine has rev_index = k, after *)
(* k completed ticks rev_count = k, and consecutive Records have           *)
(* consecutive rev_index, whatever mix of next_rev and insert_event        *)
(* produced them.                                                          *)
(***************************************************************************)
C6_StrictRevOrder ==
    /\ \A k \in 1..Len(records) : records[k].rev_index = k - 1
    /\ poh.rev_count = Len(calls)
    /\ Len(records) = Len(calls)
    /\ \A k \in 2..Len(records) : records[k].rev_index = records[k - 1].rev_index + 1

\* Three ticks done, plain and with events mixed.
C6_Witness ==
    /\ Len(records) = 3
    /\ calls = <<Some(<<7>>), None, Some(<<>>)>>
    /\ records[3].rev_index = 2
    /\ poh.rev_count = 3

(***************************************************************************)
(* C8. A Record carries Some(E), with E byte for byte, exactly when its    *)
(* tick was insert_event(E), and None exactly when it was next_rev; the    *)
(* payload of one tick appears in the Record of no other tick.             *)
(***************************************************************************)
C8_EventBinding ==
    /\ Len(records) = Len(calls)
    /\ \A k \in 1..Len(records) : records[k].event = calls[k]

\* An empty payload, a plain tick and a one-byte payload, in that order.
C8_Witness ==
    /\ calls = <<Some(<<>>), None, Some(<<7>>)>>
    /\ Len(records) = 3
    /\ records[1].event = Some(<<>>)
    /\ records[2].event = None
    /\ records[3].event = Some(<<7>>)

(***************************************************************************)
(* C9. verify_records and verify_timestamps both return false on an empty  *)
(* record list.                                                            *)
(***************************************************************************)
C9_EmptyListInvalid ==
    (last.op \in {"verify_records", "verify_timestamps"} /\ last.input = <<>>)
        => last.result = FALSE

\* verify_records has been applied to the empty list of a fresh engine.
C9_Witness ==
    /\ last.op = "verify_records"
    /\ last.input = <<>>
    /\ last.result = FALSE

(***************************************************************************)
(* C19. The timestamps of the Records of one engine never decrease in      *)
(* emission order.                                                         *)
(***************************************************************************)
C19_TimestampsMonotonic ==
    \A k \in 2..Len(records) : records[k].timestamp_ms >= records[k - 1].timestamp_ms

\* Three Records of an engine on a jittering clock, the second with the
\* timestamp of the first, the third later.
C19_Witness ==
    /\ timing = Jitter
    /\ Len(records) = 3
    /\ records[2].timestamp_ms = records[1].timestamp_ms
    /\ records[3].timestamp_ms > records[2].timestamp_ms

(***************************************************************************)
(* C21. PoH::new(seed) yields an engine whose current_hash is the single   *)
(* digest of the seed under the default algorithm, whose rev_count,        *)
(* phase_count and cycle_count are 0 and whose first deadline is           *)
(* US_PER_REV, for a seed of any length, the empty seed included.          *)
(***************************************************************************)
C21_Construction ==
    calls = <<>> =>
        \E seed \in Seeds :
            /\ poh.current_hash =
                    [op |-> "adv", alg |-> SHA256, n |-> 1, prev |-> Literal(seed)]
            /\ poh.rev_count = 0
            /\ poh.phase_count = 0
            /\ poh.cycle_count = 0
            /\ poh.next_rev_target_us = DEFAULT_US_PER_REV

\* An engine just made from the empty seed.
C21_Witness ==
    /\ calls = <<>>
    /\ last.op = "none"
    /\ poh.current_hash.prev = Literal(<<>>)
    /\ poh.rev_count = 0

(***************************************************************************)
(* Records handed off to a consumer while the engine goes on ticking: the  *)
(* consumer holds the first handoff.upto Records the engine returned and   *)
(* verifies them at any time, before, between and after further ticks.     *)
(***************************************************************************)
InitHandoff ==
    /\ HasherIdle
    /\ poh = PoHNew(TestSeed)
    /\ timing = Punctual
    /\ clock = 0 /\ records = <<>> /\ calls = <<>> /\ last = NoCall
    /\ TwinIdle

\* The Records returned so far pass to the consumer.
HandOff ==
    /\ handoff.upto = 0
    /\ records # <<>>
    /\ handoff' = [upto |-> Len(records), results |-> <<>>]
    /\ UNCHANGED <<hasher, hcall, poh, clock, timing, records, calls, last,
                   poh2, clock2, timing2, records2, worker, gossip>>

\* PoH::verify_records(&records[..upto]) by the consumer
VerifyHandedOff ==
    /\ handoff.upto > 0
    /\ Len(handoff.results) < MaxVerifies
    /\ handoff' = [handoff EXCEPT
                    !.results = Append(@, verify_records(SubSeq(records, 1, handoff.upto)))]
    /\ UNCHANGED <<hasher, hcall, poh, clock, timing, records, calls, last,
                   poh2, clock2, timing2, records2, worker, gossip>>

\* poh.insert_event(&[7])
HandoffInsertEvent ==
    /\ Len(calls) < MaxTicks
    /\ Tick(Some(<<7>>))

NextHandoff ==
    \/ next_rev
    \/ HandoffInsertEvent
    \/ HandOff
    \/ VerifyHandedOff

SpecHandoff == InitHandoff /\ [][NextHandoff]_vars

(***************************************************************************)
(* C25. A tick never changes a Record returned by an earlier tick, so      *)
(* verify_records on a list already handed off gives the same result       *)
(* whether it is evaluated before, after or between further ticks of the   *)
(* producing engine.                                                       *)
(***************************************************************************)
C25_RecordsImmutable ==
    [][/\ Len(records') >= Len(records)
       /\ \A k \in 1..Len(records) : records'[k] = records[k]
       /\ \A i \in 1..Len(handoff'.results) :
            handoff'.results[i] = handoff'.results[1]]_vars

\* One Record was handed off and verified, the engine ticked twice more, and
\* the consumer verified its Record again.
C25_Witness ==
    /\ handoff.upto = 1
    /\ Len(records) = 3
    /\ Len(handoff.results) = 2
    /\ last.op \in {"next_rev", "insert_event"}
    /\ handoff.results[2] = handoff.results[1]

(***************************************************************************)
(* Records tampered with after emission (test corruption_detection): one   *)
(* field of one Record is changed, then verify_records is applied.         *)
(***************************************************************************)
\* hash[0] ^= 0xFF
FlipFirstByte(x) ==
    IF IsLiteral(x) THEN Literal([x.data EXCEPT ![1] = 255 - @])
    ELSE [op |-> "flip", index |-> 1, prev |-> x]

TamperFields == {"hash", "rev_index", "phase_index", "cycle_index"}
\* The values written over a field: the hash with a byte flipped, an index raised
\* by one or by two.
TamperValues(record, field) ==
    IF field = "hash" THEN {FlipFirstByte(record.hash)}
    ELSE {saturating_add(record[field], 1), saturating_add(record[field], 2)}
            \ {record[field]}

Tampered(recs, i, field, v) == [recs EXCEPT ![i][field] = v]

InitTamper ==
    /\ HasherIdle
    /\ poh = PoHNew(TestSeed)
    /\ timing = Punctual
    /\ clock = 0 /\ records = <<>> /\ calls = <<>> /\ last = NoCall
    /\ TwinIdle

\* corrupted = records.clone(); one field of corrupted[i] changed;
\* PoH::verify_records(&corrupted)
VerifyTampered ==
    /\ last.op \in TickOps
    /\ Len(records) >= 2
    /\ \E i \in 1..Len(records), field \in TamperFields :
        \E v \in TamperValues(records[i], field) :
            last' = [op |-> "verify_tampered", position |-> i, field |-> field,
                     input |-> Tampered(records, i, field, v),
                     result |-> verify_records(Tampered(records, i, field, v))]
    /\ EngineIdle

NextTamper ==
    \/ next_rev
    \/ insert_event
    \/ VerifyTampered

SpecTamper == InitTamper /\ [][NextTamper]_vars

(***************************************************************************)
(* C2. In a list of at least two Records of consecutive ticks, changing    *)
(* the hash, rev_index, phase_index or cycle_index of any one Record,      *)
(* the first, a middle one or the last, makes verify_records return false. *)
(* Violated: the phase_index and cycle_index of the first Record are never *)
(* read by verify_records.                                                 *)
(***************************************************************************)
C2_TamperDetected ==
    last.op = "verify_tampered" => last.result = FALSE

(***************************************************************************)
(* Two engines built from the same seed, given the same calls, each on a   *)
(* clock of its own.                                                       *)
(***************************************************************************)
InitTwin ==
    /\ HasherIdle
    /\ \E seed \in Seeds : poh = PoHNew(seed) /\ poh2 = PoHNew(seed)
    /\ timing \in TwinClocks
    /\ timing2 \in TwinClocks \ {timing}
    /\ clock = 0 /\ records = <<>> /\ calls = <<>> /\ last = NoCall
    /\ clock2 = 0 /\ records2 = <<>>
    /\ HostIdle

\* The same call made on both engines.
TwinTick(event_data) ==
    /\ \E r \in {RunTick(poh, clock, TimingAt(timing, Len(calls)), event_data)},
          r2 \in {RunTick(poh2, clock2, TimingAt(timing2, Len(calls)), event_data)} :
            /\ poh' = r.out.poh
            /\ clock' = r.clock
            /\ records' = IF r.out.panic THEN records ELSE Append(records, r.out.record)
            /\ poh2' = r2.out.poh
            /\ clock2' = r2.clock
            /\ records2' = IF r2.out.panic THEN records2 ELSE Append(records2, r2.out.record)
            /\ calls' = Append(calls, event_data)
            /\ last' = [op |-> IF IsSome(event_data) THEN "insert_event" ELSE "next_rev",
                        pace |-> r.pace, panic |-> r.out.panic]
    /\ UNCHANGED <<hasher, hcall, timing, timing2, handoff, worker, gossip>>

\* next_rev on both engines
TwinNextRev ==
    /\ Len(calls) < MaxTicks
    /\ TwinTick(None)

\* insert_event(e) on both engines
TwinInsertEvent ==
    /\ Len(calls) < MaxTicks
    /\ \E e \in Events : TwinTick(Some(e))

NextTwin ==
    \/ TwinNextRev
    \/ TwinInsertEvent

SpecTwin == InitTwin /\ [][NextTwin]_vars

(***************************************************************************)
(* C5. Two engines built from the same seed and given the same sequence of *)
(* next_rev / insert_event calls emit Records equal position by position   *)
(* in hash, rev_index, phase_index, cycle_index and event, however         *)
(* differently their clocks run; only timestamp_ms may differ.             *)
(***************************************************************************)
SameButTimestamp(a, b) ==
    /\ a.hash = b.hash
    /\ a.rev_index = b.rev_index
    /\ a.phase_index = b.phase_index
    /\ a.cycle_index = b.cycle_index
    /\ a.event = b.event

C5_ClockIndependent ==
    /\ Len(records) = Len(records2)
    /\ \A k \in 1..Len(records) : SameButTimestamp(records[k], records2[k])
    /\ poh.current_hash = poh2.current_hash

\* Three Records from each engine, one with a payload, whose timestamps differ.
C5_Witness ==
    /\ Len(records) = 3 /\ Len(records2) = 3
    /\ records[2].event = Some(<<7>>)
    /\ \E k \in 1..3 : records[k].timestamp_ms # records2[k].timestamp_ms
    /\ \A k \in 1..3 : SameButTimestamp(records[k], records2[k])

(***************************************************************************)
(* The run of test realistic_poh_operations: TEST_REVS ticks from the test *)
(* seed, an event inserted on every tenth tick, which crosses two phase    *)
(* boundaries.                                                             *)
(***************************************************************************)
TEST_REVS == 192
EVENT_PERIOD == 10

\* The decimal digits of n, in ASCII.
RECURSIVE Decimal(_)
Decimal(n) ==
    IF n < 10 THEN <<48 + n>> ELSE Decimal(n \div 10) \o <<48 + (n % 10)>>

\* format!("Event at rev {}.", i).as_bytes()
EventAtRev(i) ==
    <<69, 118, 101, 110, 116, 32, 97, 116, 32, 114, 101, 118, 32>> \o Decimal(i) \o <<46>>

InitRealistic == InitTamper

\* poh.next_rev() when i % 10 # 0
RealisticNextRev ==
    /\ Len(calls) < TEST_REVS
    /\ Len(calls) % EVENT_PERIOD # 0
    /\ Tick(None)

\* poh.insert_event(event_data.as_bytes()) when i % 10 == 0
RealisticInsertEvent ==
    /\ Len(calls) < TEST_REVS
    /\ Len(calls) % EVENT_PERIOD = 0
    /\ Tick(Some(EventAtRev(Len(calls))))

NextRealistic ==
    \/ RealisticNextRev
    \/ RealisticInsertEvent

SpecRealistic == InitRealistic /\ [][NextRealistic]_vars

C20_PhaseTransitions ==
    /\ records # <<>> => records[1].phase_index = 0
    /\ \A k \in 2..Len(records) :
            /\ records[k].phase_index >= records[k - 1].phase_index
            /\ IF (k - 1) % DEFAULT_REVS_PER_PHASE = 0
               THEN records[k].phase_index = records[k - 1].phase_index + 1
               ELSE records[k].phase_index = records[k - 1].phase_index
    /\ Len(records) >= DEFAULT_REVS_PER_PHASE =>
            records[DEFAULT_REVS_PER_PHASE].phase_index = 0
    /\ Len(records) > DEFAULT_REVS_PER_PHASE =>
            records[DEFAULT_REVS_PER_PHASE + 1].phase_index = 1
    /\ Len(records) = 3 * DEFAULT_REVS_PER_PHASE =>
            Cardinality({k \in 2..Len(records) :
                            records[k].phase_index # records[k - 1].phase_index}) = 2

\* 3 * REVS_PER_PHASE ticks are done: the last Record of phase 1 and the first
\* of phase 2 are emitted, and the run ends in phase 2.
C20_Witness ==
    /\ Len(records) = 3 * DEFAULT_REVS_PER_PHASE
    /\ records[2 * DEFAULT_REVS_PER_PHASE].phase_index = 1
    /\ records[2 * DEFAULT_REVS_PER_PHASE + 1].phase_index = 2
    /\ records[Len(records)].phase_index = 2
    /\ poh.rev_count = 3 * DEFAULT_REVS_PER_PHASE

(***************************************************************************)
(* C26. The timing constants hold exactly: revs/second = 160, hashes/rev = *)
(* 2,000,000 / 160 = 12,500, revs/phase = 64, microseconds/rev = 6 * 1000  *)
(* + 250 = 6,250, phases/cycle = 2 * (160 * 86,400) / 64 = 432,000, and    *)
(* one phase lasts (6,250 * 64) / 1000 = 400 ms: on a punctual clock the   *)
(* last Record of a phase is stamped a multiple of 400 ms.                 *)
(***************************************************************************)
C26_TimingConstants ==
    /\ DEFAULT_REVS_PER_SECOND = 160
    /\ DEFAULT_HASHES_PER_SECOND = 2000000
    /\ DEFAULT_HASHES_PER_REV = 12500
    /\ DEFAULT_REVS_PER_PHASE = 64
    /\ DEFAULT_MS_PER_REV = 6
    /\ DEFAULT_US_TOLERANCE_PER_REV = 250
    /\ DEFAULT_US_PER_REV = 6250
    /\ DEFAULT_SECONDS_PER_DAY = 86400
    /\ DEFAULT_PHASES_PER_CYCLE = 432000
    /\ DEFAULT_MS_PER_PHASE = 400
    /\ (DEFAULT_US_PER_REV * DEFAULT_REVS_PER_PHASE) \div 1000 = 400
    /\ poh.next_rev_target_us = (poh.rev_count + 1) * 6250
    /\ \A k \in 1..Len(records) :
            /\ records[k].timestamp_ms * 1000 <= k * 6250
            /\ k * 6250 < (records[k].timestamp_ms + 1) * 1000
            /\ k % 64 = 0 => records[k].timestamp_ms = 400 * (k \div 64)
            /\ k > 1 => records[k].hash.n = records[k - 1].hash.n + 12500
                            \/ (IsSome(records[k].event) /\ records[k].hash.n = 12500)

\* The first phase is done on time: 64 Records in 400 ms.
C26_Witness ==
    /\ Len(records) = 64
    /\ records[64].timestamp_ms = 400
    /\ records[64].phase_index = 0
    /\ poh.next_rev_target_us = 65 * 6250

(***************************************************************************)
(* Engines that have already run for a long time: on the last ticks before *)
(* the deadline leaves the range of u64, and on the last ticks before      *)
(* rev_count does.                                                         *)
(***************************************************************************)
\* The deadline after n completed ticks: next_rev_target_us starts at
\* DEFAULT_US_PER_REV and takes saturating_add(DEFAULT_US_PER_REV) on every tick.
DeadlineAfter(n) ==
    IF n + 1 > U64_MAX \div DEFAULT_US_PER_REV THEN U64_MAX
    ELSE (n + 1) * DEFAULT_US_PER_REV

\* The engine after n completed ticks, its hash being h: phase_count and
\* cycle_count as the phase ends so far have left them.
EngineAfter(n, h) ==
    LET phase_ends == n \div DEFAULT_REVS_PER_PHASE IN
    [current_hash |-> h,
     rev_count |-> n,
     phase_count |-> IF phase_ends = 0 THEN 0
                     ELSE (phase_ends - 1) % DEFAULT_PHASES_PER_CYCLE,
     cycle_count |-> IF phase_ends = 0 THEN 0
                     ELSE (phase_ends - 1) \div DEFAULT_PHASES_PER_CYCLE,
     next_rev_target_us |-> DeadlineAfter(n)]

\* The last tick count whose deadline is still below the range's end.
LastExactDeadline == (U64_MAX \div DEFAULT_US_PER_REV) - 1
\* Tick counts the aged engines start from.
AgedTicks ==
    {LastExactDeadline - 1, LastExactDeadline,
     DEFAULT_REVS_PER_PHASE * (DEFAULT_PHASES_PER_CYCLE + 1) - 2,
     U64_MAX - 2, U64_MAX - 1, U64_MAX}
\* The clocks an engine of that age is run on: any for a fresh engine; later one
\* that meets every deadline and one that reaches every deadline with no wait.
\* The caller comes back exactly the spin threshold before the deadline, then one
\* microsecond less than the threshold before it, then one microsecond after it.
NearDeadline ==
    <<[gap |-> DEFAULT_US_PER_REV - DEFAULT_SPINLOCK_THRESHOLD_US, over |-> 0, work |-> 0],
      [gap |-> DEFAULT_US_PER_REV - DEFAULT_SPINLOCK_THRESHOLD_US + 1, over |-> 0, work |-> 0],
      [gap |-> DEFAULT_US_PER_REV + 1, over |-> 0, work |-> 0]>>
AgedTimings(n) == IF n = 0 THEN Clocks \cup {NearDeadline} ELSE {Punctual, Idle}

\* What elapsed().as_micros() as u64 reads after n paced ticks: the schedule's
\* time while that fits; past the range the cast keeps the low 64 bits, which
\* may be anything: the two ends of the range stand for it.
AgedClocks(n) ==
    IF n <= LastExactDeadline THEN {n * DEFAULT_US_PER_REV} ELSE {0, U64_MAX}

\* A fresh engine, or one that has run for long (its hash is then some 32 bytes).
InitAged ==
    /\ HasherIdle
    /\ \E n \in {0} \cup AgedTicks :
            /\ poh = EngineAfter(n, hash(HasherDefault, TestSeed))
            /\ clock \in AgedClocks(n)
            /\ timing \in AgedTimings(n)
    /\ records = <<>> /\ calls = <<>> /\ last = NoCall
    /\ TwinIdle

NextAged ==
    \/ next_rev
    \/ insert_event

SpecAged == InitAged /\ [][NextAged]_vars

(***************************************************************************)
(* C12. A tick invoked when rev_count is at the maximum of its range ends  *)
(* in a panic and returns no Record; rev_count never wraps to 0, and every *)
(* Record emitted carries the rev_count its tick started from.             *)
(***************************************************************************)
C12_OverflowIsFatal ==
    [][calls' # calls =>
        /\ poh'.rev_count >= poh.rev_count
        /\ poh.rev_count = U64_MAX =>
                /\ last'.panic
                /\ records' = records
                /\ poh'.rev_count = U64_MAX
        /\ poh.rev_count < U64_MAX =>
                /\ ~last'.panic
                /\ records' = Append(records, records'[Len(records')])
                /\ records'[Len(records')].rev_index = poh.rev_count
                /\ poh'.rev_count = poh.rev_count + 1]_vars

\* The engine has emitted the Record of its last possible tick, and the tick
\* after it has panicked.
C12_Witness ==
    /\ last.op \in {"next_rev", "insert_event"}
    /\ last.panic
    /\ poh.rev_count = U64_MAX
    /\ Len(calls) = 2
    /\ Len(records) = 1
    /\ records[1].rev_index = U64_MAX - 1

(***************************************************************************)
(* Record lists handed to verify_records by a caller who did not get them  *)
(* from an engine unchanged: the Records of three ticks, renumbered from   *)
(* any rev_index (a list cut out of a longer stream, the end of the range  *)
(* included), with or without one defect.                                  *)
(***************************************************************************)
\* The Records of the calls cs made in order on engine self, on a punctual clock.
RECURSIVE RunCalls(_, _, _)
RunCalls(self, clk, cs) ==
    IF cs = <<>> THEN <<>>
    ELSE LET r == RunTick(self, clk, OnTime, Head(cs))
         IN  <<r.out.record>> \o RunCalls(r.out.poh, r.clock, Tail(cs))

BaseCalls == {<<None, None, None>>, <<None, Some(<<7>>), Some(<<>>)>>}

\* record with rev_index v and the phase_index and cycle_index that go with it.
WithRev(record, v) ==
    [record EXCEPT !.rev_index = v,
                   !.phase_index = v \div DEFAULT_REVS_PER_PHASE,
                   !.cycle_index = (v \div DEFAULT_REVS_PER_PHASE) \div DEFAULT_PHASES_PER_CYCLE]

\* recs renumbered start, start + 1, ... within the range of u64.
Renumbered(recs, start) ==
    [k \in 1..Len(recs) |-> WithRev(recs[k], saturating_add(start, k - 1))]

RevStarts == {0, DEFAULT_REVS_PER_PHASE - 1, U64_MAX - 2, U64_MAX - 1, U64_MAX}

DefectKinds == {"hash", "event", "skip", "back", "phase_index", "cycle_index"}
\* One field of one record changed.
Defective(record, kind) ==
    CASE kind = "hash" -> [record EXCEPT !.hash = FlipFirstByte(@)]
      [] kind = "event" -> [record EXCEPT !.event = IF IsSome(@) THEN None ELSE Some(<<7>>)]
      [] kind = "skip" -> WithRev(record, saturating_add(record.rev_index, 1))
      [] kind = "back" -> WithRev(record, saturating_sub(record.rev_index, 1))
      [] kind = "phase_index" -> [record EXCEPT !.phase_index = saturating_add(@, 1)]
      [] kind = "cycle_index" -> [record EXCEPT !.cycle_index = saturating_add(@, 1)]

ForgedLists ==
    UNION {UNION {{list} \cup {[list EXCEPT ![i] = Defective(@, kind)] :
                                i \in 1..Len(list), kind \in DefectKinds} :
                  list \in {Renumbered(base, start) : start \in RevStarts}} :
           base \in {RunCalls(PoHNew(TestSeed), 0, cs) : cs \in BaseCalls}}

\* No engine: the list is the caller's.
InitForged ==
    /\ HasherIdle
    /\ poh = NoEngine /\ clock = 0 /\ timing = <<>>
    /\ records \in ForgedLists
    /\ calls = <<>> /\ last = NoCall
    /\ TwinIdle

NextForged ==
    \/ VerifyRecords

SpecForged == InitForged /\ [][NextForged]_vars

(***************************************************************************)
(* C13. On a non-empty list verify_records returns true if and only if     *)
(* every consecutive pair (prev, curr) satisfies all of:                   *)
(* verify_hash_chain(prev.hash, curr.hash, HASHES_PER_REV, curr.event),    *)
(* curr.rev_index = prev.rev_index + 1, curr.phase_index = curr.rev_index  *)
(* / REVS_PER_PHASE, curr.cycle_index = curr.rev_index / (REVS_PER_PHASE * *)
(* PHASES_PER_CYCLE); one failing pair makes the result false.             *)
(* Violated where prev.rev_index is the maximum: see C14.                  *)
(***************************************************************************)
C13_PairHolds(prev, curr) ==
    /\ verify_hash_chain(HasherDefault, prev.hash, curr.hash, DEFAULT_HASHES_PER_REV,
                         curr.event)
    /\ curr.rev_index = prev.rev_index + 1
    /\ curr.phase_index = curr.rev_index \div DEFAULT_REVS_PER_PHASE
    /\ curr.cycle_index =
            curr.rev_index \div (DEFAULT_REVS_PER_PHASE * DEFAULT_PHASES_PER_CYCLE)

C13_NoPartialSuccess ==
    (last.op = "verify_records" /\ last.input # <<>>) =>
        (last.result <=>
            \A k \in 1..(Len(last.input) - 1) :
                C13_PairHolds(last.input[k], last.input[k + 1]))

(***************************************************************************)
(* C14. verify_records rejects every list with a consecutive pair whose    *)
(* rev_index values are not consecutive: a gap, a repeat or a decrease,    *)
(* for every prev.rev_index in the range, the maximum included.            *)
(* Violated: at the maximum saturating_add(1) returns the maximum, and a   *)
(* repeat passes.                                                          *)
(***************************************************************************)
C14_NonConsecutiveRejected ==
    (/\ last.op = "verify_records"
     /\ \E k \in 1..(Len(last.input) - 1) :
            last.input[k + 1].rev_index # last.input[k].rev_index + 1)
        => last.result = FALSE

(***************************************************************************)
(* C22. Two record lists that are identical except for their timestamp_ms  *)
(* values get the same result from verify_records.                         *)
(***************************************************************************)
\* recs with the timestamps stamps, every other field as it is.
Restamp(recs, stamps) ==
    [k \in 1..Len(recs) |-> [recs[k] EXCEPT !.timestamp_ms = stamps[k]]]

\* Other timestamps for a list of n records: all 0, and descending from the top
\* of the range.
OtherStamps(n) == {[k \in 1..n |-> 0], [k \in 1..n |-> U64_MAX - k]}

C22_TimestampsIgnored ==
    last.op = "verify_records" =>
        \A stamps \in OtherStamps(Len(last.input)) :
            verify_records(Restamp(last.input, stamps)) = last.result

\* A list was accepted whose timestamps rise; rewritten to fall, it is another
\* list.
C22_Witness ==
    /\ last.op = "verify_records"
    /\ last.result = TRUE
    /\ Len(last.input) = 3
    /\ last.input[2].timestamp_ms > last.input[1].timestamp_ms
    /\ \E stamps \in OtherStamps(3) :
            Restamp(last.input, stamps)[2].timestamp_ms < Restamp(last.input, stamps)[1].timestamp_ms

(***************************************************************************)
(* Record lists handed to verify_timestamps: any timestamps, around the    *)
(* edges of the tolerance window and at both ends of the range of u64.     *)
(***************************************************************************)
\* Records that differ in every field but the timestamp.
PlainRecord(ts) ==
    [hash |-> ZeroHash, rev_index |-> 0, phase_index |-> 0, cycle_index |-> 0,
     timestamp_ms |-> ts, event |-> None]
OddRecord(ts) ==
    [hash |-> LastByteOne, rev_index |-> 7, phase_index |-> 3, cycle_index |-> 1,
     timestamp_ms |-> ts, event |-> Some(<<7>>)]

StampAnchors == {0, 5, 100, U64_MAX - 20, U64_MAX - 6, U64_MAX}
StampDrifts == {-9, -8, 0, 8, 9}
\* The schedule's time for position i after anchor, off by drift, kept in range.
StampAt(anchor, i, drift) ==
    LET ms == anchor + ((i * DEFAULT_US_PER_REV) \div 1000) + drift
    IN  IF ms < 0 THEN 0 ELSE IF ms > U64_MAX THEN U64_MAX ELSE ms

StampLists ==
    UNION {{<<a>>}
            \cup {<<a, StampAt(a, 1, d1)>> : d1 \in StampDrifts}
            \cup {<<a, StampAt(a, 1, d1), StampAt(a, 2, d2)>> :
                        d1 \in StampDrifts, d2 \in StampDrifts} :
           a \in StampAnchors}

InitStamps ==
    /\ HasherIdle
    /\ poh = NoEngine /\ clock = 0 /\ timing = <<>>
    /\ \E stamps \in StampLists :
            \/ records = [k \in 1..Len(stamps) |-> PlainRecord(stamps[k])]
            \/ records = [k \in 1..Len(stamps) |-> OddRecord(stamps[k])]
    /\ calls = <<>> /\ last = NoCall
    /\ TwinIdle

NextStamps ==
    \/ VerifyTimestamps

SpecStamps == InitStamps /\ [][NextStamps]_vars

(***************************************************************************)
(* C15, as claimed.  verify_timestamps on a non-empty list returns true if *)
(* and only if every records[i].timestamp_ms lies in [expected_i - 8,      *)
(* expected_i + 8], expected_i = records[0].timestamp_ms + (i * US_PER_REV)*)
(* / 1000, the lower bound clamped at 0.  Violated at the upper end of the *)
(* range, where the code clamps expected_i and the upper bound too.        *)
(***************************************************************************)
C15_ExpectedExact(recs, k) == recs[1].timestamp_ms + (((k - 1) * DEFAULT_US_PER_REV) \div 1000)

C15_Clamp(x) == IF x < 0 THEN 0 ELSE IF x > U64_MAX THEN U64_MAX ELSE x

C16_DeadlineAsClaimed ==
    [][(calls' # calls /\ ~last'.panic) =>
        /\ poh'.next_rev_target_us = poh.next_rev_target_us + DEFAULT_US_PER_REV
        /\ poh'.next_rev_target_us % DEFAULT_US_PER_REV = 0
        /\ poh'.next_rev_target_us \div DEFAULT_US_PER_REV = poh'.rev_count + 1]_vars

(***************************************************************************)
(* C16, amended.  After k completed ticks next_rev_target_us is            *)
(* (k + 1) * US_PER_REV, or the maximum of u64 once that product exceeds   *)
(* it; the increment depends neither on the clock reading nor on whether   *)
(* the tick met its deadline.                                              *)
(***************************************************************************)
C16_DeadlineSchedule ==
    IF poh.rev_count + 1 > U64_MAX \div DEFAULT_US_PER_REV
    THEN poh.next_rev_target_us = U64_MAX
    ELSE /\ poh.next_rev_target_us % DEFAULT_US_PER_REV = 0
         /\ poh.next_rev_target_us \div DEFAULT_US_PER_REV = poh.rev_count + 1

\* A fresh engine on a late clock has done two ticks, the second past its
\* deadline: the third deadline is 3 * US_PER_REV all the same.
C16_Witness ==
    /\ timing = Late
    /\ Len(calls) = 2
    /\ poh.rev_count = 2
    /\ last.pace.mode = "none"
    /\ last.entry_us > last.target_us
    /\ poh.next_rev_target_us = 3 * DEFAULT_US_PER_REV

(***************************************************************************)
(* C17 as claimed.  The k-th Record (from 0) of an engine is emitted no    *)
(* earlier than (k + 1) * US_PER_REV microseconds after construction: its  *)
(* timestamp_ms is at least ((k + 1) * US_PER_REV) / 1000.  Stated for the *)
(* Records up to the first one whose deadline is saturated, whose clock    *)
(* readings all fit in u64.  Violated by that Record: its tick waits for   *)
(* the saturated deadline, which is earlier.                               *)
(***************************************************************************)
\* timestamp_ms >= (m * US_PER_REV) / 1000, without forming the product.
StampReached(timestamp_ms, m) ==
    (timestamp_ms * 1000 + 999) \div DEFAULT_US_PER_REV >= m

C17_PacingAsClaimed ==
    \A k \in 1..Len(records) :
        records[k].rev_index <= LastExactDeadline + 1 =>
            StampReached(records[k].timestamp_ms, records[k].rev_index + 1)

(***************************************************************************)
(* C17, amended.  No tick starts hashing, or emits its Record, before the  *)
(* clock has reached the tick's deadline next_rev_target_us; while         *)
(* (k + 1) * US_PER_REV fits in u64 that deadline is (k + 1) * US_PER_REV  *)
(* for the k-th Record (from 0), whose timestamp_ms is then at least       *)
(* ((k + 1) * US_PER_REV) / 1000.                                          *)
(***************************************************************************)
C17_Pacing ==
    /\ last.op \in {"next_rev", "insert_event"} =>
            /\ last.start_us >= last.target_us
            /\ ~last.panic =>
                    /\ last.target_us = DeadlineAfter(records[Len(records)].rev_index)
                    /\ records[Len(records)].timestamp_ms >= last.start_us \div 1000
    /\ \A k \in 1..Len(records) :
            records[k].rev_index <= LastExactDeadline =>
                StampReached(records[k].timestamp_ms, records[k].rev_index + 1)

\* The third tick of a fresh engine arrived less than the spin threshold before
\* its deadline and spun until the deadline.
C17_Witness ==
    /\ last.op \in {"next_rev", "insert_event"}
    /\ Len(records) = 3
    /\ records[3].rev_index = 2
    /\ last.pace.mode = "spin"
    /\ last.entry_us < last.target_us
    /\ last.start_us >= last.target_us
    /\ records[3].timestamp_ms >= 18

(***************************************************************************)
(* C18 as claimed.  A tick that starts when the elapsed time is already at *)
(* or past next_rev_target_us neither sleeps nor spins nor fails: it       *)
(* emits its Record, increments rev_count and advances the deadline by     *)
(* US_PER_REV.  Violated by the tick whose next deadline saturates, and by *)
(* the tick at the maximum of rev_count, which panics (C12).               *)
(***************************************************************************)
C18_ToleratedAsClaimed ==
    [][(calls' # calls /\ last'.entry_us >= last'.target_us) =>
        /\ last'.pace.mode = "none"
        /\ ~last'.panic
        /\ Len(records') = Len(records) + 1
        /\ poh'.rev_count = poh.rev_count + 1
        /\ poh'.next_rev_target_us = poh.next_rev_target_us + DEFAULT_US_PER_REV]_vars

(***************************************************************************)
(* C18, amended.  A tick that starts when the elapsed time is already at   *)
(* or past next_rev_target_us neither sleeps nor spins; unless rev_count   *)
(* is at the maximum of u64 it does not fail: it embeds and extends the    *)
(* hash, emits its Record, increments rev_count and advances the deadline  *)
(* by US_PER_REV, saturating at the maximum of u64.                        *)
(***************************************************************************)
C18_MissedDeadlineTolerated ==
    [][(calls' # calls /\ last'.entry_us >= last'.target_us) =>
        /\ last'.pace.mode = "none"
        /\ last'.start_us = last'.entry_us
        /\ last'.target_us = poh.next_rev_target_us
        /\ last'.panic <=> poh.rev_count = U64_MAX
        /\ ~last'.panic =>
                /\ poh'.current_hash = HashStep(poh, calls'[Len(calls')])
                /\ records' = Append(records, records'[Len(records')])
                /\ records'[Len(records')].hash = poh'.current_hash
                /\ records'[Len(records')].rev_index = poh.rev_count
                /\ poh'.rev_count = poh.rev_count + 1
                /\ poh'.next_rev_target_us =
                        saturating_add(poh.next_rev_target_us, DEFAULT_US_PER_REV)]_vars

\* The second tick of a fresh engine whose caller idles, with a payload, started
\* exactly at its deadline.
C18_Witness ==
    /\ last.op = "insert_event"
    /\ Len(calls) = 2
    /\ last.entry_us = last.target_us
    /\ last.target_us = 2 * DEFAULT_US_PER_REV
    /\ last.pace.mode = "none"
    /\ Len(records) = 2
    /\ poh.rev_count = 2

(***************************************************************************)
(* Record lists whose numeric fields sit at the two ends of the range of   *)
(* u64, handed to both verifiers; the hashes form a valid chain, so that   *)
(* verify_records goes on to its index arithmetic.                         *)
(***************************************************************************)
ExtremeValues == {0, U64_MAX}
\* A record for position k (1 or 2) of a list, on the chain from the zero hash.
ExtremeRecords(k) ==
    {[hash |-> IF k = 1 THEN ZeroHash
               ELSE extend_hash_chain(HasherDefault, ZeroHash, DEFAULT_HASHES_PER_REV),
      rev_index |-> r, phase_index |-> p, cycle_index |-> c, timestamp_ms |-> t,
      event |-> None] : r \in ExtremeValues, p \in ExtremeValues,
                        c \in ExtremeValues, t \in ExtremeValues}

\* The empty list; the lists of one record, whose hash is a literal or a digest and
\* whose event is absent, empty or not; the lists of two records, and those of
\* them whose second record carries the indices that follow the first's rev_index.
ExtremeLists ==
    {<<>>} \cup {<<[a EXCEPT !.hash = h, !.event = e]>> :
                    a \in ExtremeRecords(1),
                    h \in {ZeroHash, LastByteOne, hash(HasherDefault, TestSeed)},
                    e \in {None, Some(<<>>), Some(<<7>>)}}
           \cup {<<a, b>> : a \in ExtremeRecords(1), b \in ExtremeRecords(2)}
           \cup {<<a, WithRev(b, saturating_add(a.rev_index, 1))>> :
                    a \in ExtremeRecords(1), b \in ExtremeRecords(2)}

InitExtreme ==
    /\ HasherIdle
    /\ poh = NoEngine /\ clock = 0 /\ timing = <<>>
    /\ records \in ExtremeLists
    /\ calls = <<>> /\ last = NoCall
    /\ TwinIdle

NextExtreme ==
    \/ VerifyRecords
    \/ VerifyTimestamps

SpecExtreme == InitExtreme /\ [][NextExtreme]_vars

(***************************************************************************)
(* C23. For every record list, those with rev_index, phase_index,          *)
(* cycle_index or timestamp_ms at 0 or at the maximum included,            *)
(* verify_records and verify_timestamps return a boolean: no u64 value     *)
(* they compute leaves the range of u64, and the first record is read only *)
(* of a non-empty list.                                                    *)
(***************************************************************************)
U64 == 0..U64_MAX

C23_VerifiersTotal ==
    /\ last.op \in {"verify_records", "verify_timestamps"} =>
            /\ last.result \in BOOLEAN
            /\ last.input = <<>> => last.result = FALSE
    /\ last.op = "verify_records" =>
            \A k \in 1..(Len(last.input) - 1) :
                /\ NextRevIndex(last.input[k]) \in U64
                /\ NextRevIndex(last.input[k]) >= last.input[k].rev_index
    /\ last.op = "verify_timestamps" =>
            \A k \in 1..Len(last.input) :
                LET bounds == TimestampBounds(last.input[1].timestamp_ms, k - 1)
                IN  /\ bounds.expected_timestamp \in U64
                    /\ bounds.lower_bound \in U64
                    /\ bounds.upper_bound \in U64
                    /\ bounds.lower_bound <= bounds.expected_timestamp
                    /\ bounds.expected_timestamp <= bounds.upper_bound

\* A verifier has run on two records with every numeric field at the maximum,
\* whose hashes pass verify_hash_chain: verify_records goes on to the index checks.
C23_Witness ==
    /\ last.op \in {"verify_records", "verify_timestamps"}
    /\ Len(last.input) = 2
    /\ \A k \in 1..2 :
            /\ last.input[k].rev_index = U64_MAX
            /\ last.input[k].phase_index = U64_MAX
            /\ last.input[k].cycle_index = U64_MAX
            /\ last.input[k].timestamp_ms = U64_MAX
    /\ verify_hash_chain(HasherDefault, last.input[1].hash, last.input[2].hash,
                         DEFAULT_HASHES_PER_REV, last.input[2].event)

(***************************************************************************)
(* Native thread worker (thread/src/native_runtime): a Config with         *)
(* max_threads, the counter running_count shared with every JoinHandle,    *)
(* and the threads spawned so far.  calls logs the operations in order.    *)
(***************************************************************************)
\* Native::new(name, config) with config.max_threads = m
NativeNew(m) == [max_threads |-> m, running_count |-> 0, handles |-> <<>>]

\* Native::is_full
is_full(self) == self.running_count >= self.max_threads

spawn_off_by_one(self) ==
    IF self.running_count > self.max_threads
    THEN [worker |-> self, ok |-> FALSE]
    ELSE [worker |-> [self EXCEPT !.running_count = @ + 1,
                                  !.handles = Append(@, "running")],
          ok |-> TRUE]

\* Native::spawn: an error while the worker is full, else a new thread and its
\* JoinHandle.
spawn(self) ==
    IF is_full(self)
    THEN [worker |-> self, ok |-> FALSE]
    ELSE [worker |-> [self EXCEPT !.running_count = @ + 1,
                                  !.handles = Append(@, "running")],
          ok |-> TRUE]

\* JoinHandle::join on a thread whose closure has ended.
join(self, id) ==
    [self EXCEPT !.running_count = @ - 1, !.handles[id] = "joined"]

\* The threads of self whose closure is still running.
Running(self) == {id \in 1..Len(self.handles) : self.handles[id] = "running"}

InitWorker ==
    /\ HasherIdle
    /\ poh = NoEngine /\ clock = 0 /\ timing = <<>>
    /\ records = <<>> /\ calls = <<>> /\ last = NoCall
    /\ poh2 = NoEngine /\ clock2 = 0 /\ timing2 = <<>> /\ records2 = <<>>
    /\ handoff = [upto |-> 0, results |-> <<>>] /\ gossip = [state |-> "none"]
    /\ \E m \in 1..MaxThreadLimit : worker = NativeNew(m)

\* worker.spawn(closure)
Spawn ==
    /\ Len(calls) < MaxWorkerCalls
    /\ \E r \in {spawn(worker)} :
            /\ worker' = r.worker
            /\ calls' = Append(calls, [op |-> "spawn", ok |-> r.ok,
                                       running_before |-> worker.running_count])
    /\ UNCHANGED <<hasher, hcall, poh, clock, timing, records, last,
                   poh2, clock2, timing2, records2, handoff, gossip>>

\* The closure of thread id returns, or panics.
ThreadExit ==
    /\ Len(calls) < MaxWorkerCalls
    /\ \E id \in Running(worker) :
            /\ worker' = [worker EXCEPT !.handles[id] = "finished"]
            /\ calls' = Append(calls, [op |-> "exit", id |-> id])
    /\ UNCHANGED <<hasher, hcall, poh, clock, timing, records, last,
                   poh2, clock2, timing2, records2, handoff, gossip>>

\* handle.join() returns: the thread has ended.
Join ==
    /\ Len(calls) < MaxWorkerCalls
    /\ \E id \in 1..Len(worker.handles) :
            /\ worker.handles[id] = "finished"
            /\ worker' = join(worker, id)
            /\ calls' = Append(calls, [op |-> "join", id |-> id])
    /\ UNCHANGED <<hasher, hcall, poh, clock, timing, records, last,
                   poh2, clock2, timing2, records2, handoff, gossip>>

NextWorker ==
    \/ Spawn
    \/ ThreadExit
    \/ Join

SpecWorker == InitWorker /\ [][NextWorker]_vars

(***************************************************************************)
(* C27. For a worker created with max_threads = m the number of running    *)
(* threads never exceeds m; spawn returns an error, and starts nothing,    *)
(* while running_count = m; running_count drops back as handles are        *)
(* joined, and once it is below m spawn succeeds again.                    *)
(***************************************************************************)
C27_ThreadLimit ==
    /\ Cardinality(Running(worker)) <= worker.max_threads
    /\ worker.running_count <= worker.max_threads
    /\ worker.running_count =
            Cardinality({id \in 1..Len(worker.handles) : worker.handles[id] # "joined"})
    /\ Len(worker.handles) =
            Cardinality({k \in 1..Len(calls) : calls[k].op = "spawn" /\ calls[k].ok})
    /\ \A k \in 1..Len(calls) :
            calls[k].op = "spawn" =>
                (calls[k].ok <=> calls[k].running_before < worker.max_threads)

\* A worker of two threads was full and refused a spawn; one thread ended and
\* was joined, and the next spawn succeeded.
C27_Witness ==
    /\ worker.max_threads = 2
    /\ Len(calls) >= 5
    /\ calls[1].op = "spawn" /\ calls[1].ok
    /\ calls[2].op = "spawn" /\ calls[2].ok
    /\ calls[3].op = "spawn" /\ ~calls[3].ok
    /\ calls[3].running_before = 2
    /\ calls[4].op = "exit"
    /\ calls[5].op = "join"
    /\ worker.running_count = 1

(***************************************************************************)
(* C29. phase_count is the number of phases completed in the current       *)
(* cycle: after k ticks of a fresh engine it is (k / REVS_PER_PHASE) mod   *)
(* PHASES_PER_CYCLE; in particular it is 1 after exactly REVS_PER_PHASE    *)
(* ticks.  Checked on the 192-tick run of SpecRealistic.                   *)
(***************************************************************************)
C29_PhaseCount ==
    /\ poh.phase_count =
            (poh.rev_count \div DEFAULT_REVS_PER_PHASE) % DEFAULT_PHASES_PER_CYCLE
    /\ poh.rev_count = DEFAULT_REVS_PER_PHASE => poh.phase_count = 1

(***************************************************************************)
(* C30. cycle_count is written only on a tick that completes a phase (the  *)
(* incremented rev_count is a multiple of REVS_PER_PHASE) and whose Record *)
(* has phase_index divisible by PHASES_PER_CYCLE; on that tick cycle_count *)
(* becomes the Record's cycle_index and phase_count becomes 0; every other *)
(* tick leaves cycle_count as it was.  cycle_count never decreases.        *)
(* Checked on the ticks of SpecAged.                                       *)
(***************************************************************************)
C30_CycleCountFrame ==
    [][Len(calls') = Len(calls) + 1 =>
        /\ poh'.cycle_count >= poh.cycle_count
        /\ IF last'.panic THEN poh'.cycle_count = poh.cycle_count
           ELSE LET record == records'[Len(records')] IN
                IF /\ poh'.rev_count % DEFAULT_REVS_PER_PHASE = 0
                   /\ record.phase_index % DEFAULT_PHASES_PER_CYCLE = 0
                THEN /\ poh'.cycle_count = record.cycle_index
                     /\ poh'.phase_count = 0
                ELSE poh'.cycle_count = poh.cycle_count]_vars

\* The tick that completes the first phase of cycle 1 has moved cycle_count from
\* 0 to 1 and put phase_count, PHASES_PER_CYCLE before it, back to 0; the tick
\* after it has left both alone.
C30_Witness ==
    /\ Len(records) = 3
    /\ poh.rev_count = DEFAULT_REVS_PER_PHASE * (DEFAULT_PHASES_PER_CYCLE + 1) + 1
    /\ records[2].phase_index = DEFAULT_PHASES_PER_CYCLE
    /\ records[2].cycle_index = 1
    /\ poh.cycle_count = 1
    /\ poh.phase_count = 0

(***************************************************************************)
(* C31. With r = next_rev_target_us minus the elapsed microseconds at the  *)
(* start of the tick, the pacing step does nothing when r <= 0, busy-polls *)
(* the clock when 0 < r < DEFAULT_SPINLOCK_THRESHOLD_US, and issues one    *)
(* thread sleep of r microseconds when r is the threshold or more; it      *)
(* never both sleeps and spins.  Checked on the ticks of SpecAged.         *)
(***************************************************************************)
C31_HybridPacing ==
    last.op \in {"next_rev", "insert_event"} =>
        LET r == last.target_us - last.entry_us IN
        /\ last.pace.mode \in {"none", "spin", "sleep"}
        /\ r <= 0 => (last.pace.mode = "none" /\ last.start_us = last.entry_us)
        /\ (0 < r /\ r < DEFAULT_SPINLOCK_THRESHOLD_US) => last.pace.mode = "spin"
        /\ r >= DEFAULT_SPINLOCK_THRESHOLD_US =>
                (last.pace.mode = "sleep" /\ last.pace.sleep_us = r)
        /\ last.pace.mode # "none" => last.start_us >= last.entry_us + r

\* A tick entered exactly 250 microseconds before its deadline has slept 250.
C31_Witness ==
    /\ last.op \in {"next_rev", "insert_event"}
    /\ last.target_us - last.entry_us = 250
    /\ last.pace = [mode |-> "sleep", sleep_us |-> 250]
    /\ last.start_us = last.target_us

(***************************************************************************)
(* C33. After every completed tick the engine's current_hash is the hash   *)
(* of the Record that tick returned, and the next Record emitted satisfies *)
(* verify_hash_chain(that hash, next.hash, HASHES_PER_REV, next.event).    *)
(* Checked on the 192-tick run of SpecRealistic.                           *)
(***************************************************************************)
C33_ChainTip ==
    [][(Len(calls') = Len(calls) + 1 /\ ~last'.panic) =>
        LET next == records'[Len(records')] IN
        /\ Len(records') = Len(records) + 1
        /\ poh'.current_hash = next.hash
        /\ records # <<>> =>
                /\ poh.current_hash = records[Len(records)].hash
                /\ verify_hash_chain(HasherDefault, records[Len(records)].hash, next.hash,
                                     DEFAULT_HASHES_PER_REV, next.event)]_vars

\* Tick 10 of the run embedded "Event at rev 10." on the tip left by tick 9, a
\* plain tick, and tick 11, plain again, went on from the tip tick 10 left.
C33_Witness ==
    /\ Len(records) = 12
    /\ records[10].event = None
    /\ records[11].event = Some(EventAtRev(10))
    /\ records[12].event = None
    /\ poh.current_hash = records[12].hash
    /\ records[12].hash # records[11].hash
    /\ verify_hash_chain(HasherDefault, records[10].hash, records[11].hash,
                         DEFAULT_HASHES_PER_REV, records[11].event)

(***************************************************************************)
(* C34. verify_records returns true for every list of exactly one Record,  *)
(* whatever its hash, rev_index, phase_index, cycle_index, timestamp_ms or *)
(* event: only consecutive pairs are checked, and of a pair only the       *)
(* second record has its phase_index, cycle_index and event examined.      *)
(* Checked on the lists of SpecExtreme.                                    *)
(***************************************************************************)
C34_SingleRecordAccepted ==
    last.op = "verify_records" =>
        /\ Len(last.input) = 1 => last.result
        /\ Len(last.input) = 2 =>
                verify_records([last.input EXCEPT
                                    ![1].phase_index = U64_MAX - @,
                                    ![1].cycle_index = U64_MAX - @,
                                    ![1].event = Some(<<7>>)]) = last.result

\* verify_records has accepted one record of rev_index 0 whose phase_index and
\* cycle_index are at the maximum, whose hash is a digest and which has an event.
C34_Witness ==
    /\ last.op = "verify_records"
    /\ Len(last.input) = 1
    /\ last.input[1].rev_index = 0
    /\ last.input[1].phase_index = U64_MAX
    /\ last.input[1].cycle_index = U64_MAX
    /\ last.input[1].hash = hash(HasherDefault, TestSeed)
    /\ last.input[1].event = Some(<<7>>)
    /\ last.result

(***************************************************************************)
(* C35. verify_records is closed under contiguous slicing: when it accepts *)
(* a list it accepts every non-empty contiguous sub-list of it, so a valid *)
(* sequence split into batches verifies batch by batch.  Checked on the    *)
(* lists of SpecForged.                                                    *)
(***************************************************************************)
C35_SliceClosed ==
    (last.op = "verify_records" /\ last.result) =>
        \A i \in 1..Len(last.input) : \A j \in i..Len(last.input) :
            verify_records(SubSeq(last.input, i, j))

\* An accepted list of three records numbered from the end of phase 0, one of
\* them with a payload: its batches <<1>>, <<2, 3>> and <<3>> are accepted too.
C35_Witness ==
    /\ last.op = "verify_records" /\ last.result
    /\ Len(last.input) = 3
    /\ last.input[1].rev_index = DEFAULT_REVS_PER_PHASE - 1
    /\ last.input[2].event = Some(<<7>>)
    /\ verify_records(SubSeq(last.input, 1, 1))
    /\ verify_records(SubSeq(last.input, 2, 3))
    /\ verify_records(SubSeq(last.input, 3, 3))

(***************************************************************************)
(* One tick step by step: the call enters enforce_timing, waits there (or  *)
(* not), embeds, runs the loops of extend_hash_chain pass by pass and      *)
(* returns its Record, while the monotonic clock advances on its own.      *)
(* last holds the call in flight: where it stands (pc), what the pacing    *)
(* step decided, and the loop state [cur, i, brk] of extend_hash_chain.    *)
(* Even calls are next_rev, odd ones insert_event.                         *)
(***************************************************************************)
InitPaced ==
    /\ HasherIdle
    /\ poh = PoHNew(TestSeed)
    /\ clock = 0 /\ timing = <<>>
    /\ records = <<>> /\ calls = <<>> /\ last = [op |-> "none", pc |-> "idle"]
    /\ TwinIdle

\* next_rev or insert_event is called: enforce_timing reads the clock and
\* decides; spin_until and the end of the sleep are that reading plus sleep_us.
\* With nothing to wait for, core goes on to embed the event data, if any.
EnterTick ==
    /\ Len(calls) < MaxTicks
    /\ last.pc \in {"idle", "done"}
    /\ \E event_data \in {IF Len(calls) % 2 = 0 THEN None ELSE Some(<<7>>)} :
            \E pace \in {enforce_timing(poh, clock)} :
                /\ calls' = Append(calls, event_data)
                /\ last' = [op |-> IF IsSome(event_data) THEN "insert_event" ELSE "next_rev",
                            pc |-> IF pace.mode = "none" THEN "main" ELSE pace.mode,
                            mode |-> pace.mode, wake_us |-> clock + pace.sleep_us,
                            loops |-> [cur |-> IF IsSome(event_data)
                                               THEN embed_data(HasherDefault, poh.current_hash,
                                                               Unwrap(event_data))
                                               ELSE poh.current_hash,
                                       i |-> 0, brk |-> FALSE]]
    /\ UNCHANGED <<hasher, hcall, poh, clock, timing, records,
                   poh2, clock2, timing2, records2, handoff, worker, gossip>>

\* Instant::elapsed moves on, whatever the engine is doing; followed until it
\* is the spin threshold past the deadline the engine is at.
ClockAdvance ==
    /\ clock < poh.next_rev_target_us + DEFAULT_SPINLOCK_THRESHOLD_US
    /\ clock' = clock + 125
    /\ UNCHANGED <<hasher, hcall, poh, timing, records, calls, last,
                   poh2, clock2, timing2, records2, handoff, worker, gossip>>

\* The spin loop sees spin_until reached, or thread::sleep returns; core goes on.
WaitOver ==
    /\ last.pc \in {"spin", "sleep"}
    /\ clock >= last.wake_us
    /\ last' = [last EXCEPT !.pc = "main"]
    /\ UNCHANGED <<hasher, hcall, poh, clock, timing, records, calls,
                   poh2, clock2, timing2, records2, handoff, worker, gossip>>

\* One pass of the unrolled loop of extend_hash_chain(.., DEFAULT_HASHES_PER_REV):
\* break, and on to the remainder loop, when i.checked_add(8) overflows or next_i
\* exceeds the iterations; else eight chain steps, one after the other, and
\* i = next_i.
MainLoopPass ==
    /\ last.pc = "main"
    /\ IF last.loops.i > U64_MAX - 8 \/ last.loops.i + 8 > DEFAULT_HASHES_PER_REV
       THEN last' = [last EXCEPT !.pc = "rest"]
       ELSE \E h1 \in {previous_hash(HasherDefault, last.loops.cur)} :
            \E h2 \in {previous_hash(HasherDefault, h1)} :
            \E h3 \in {previous_hash(HasherDefault, h2)} :
            \E h4 \in {previous_hash(HasherDefault, h3)} :
            \E h5 \in {previous_hash(HasherDefault, h4)} :
            \E h6 \in {previous_hash(HasherDefault, h5)} :
            \E h7 \in {previous_hash(HasherDefault, h6)} :
            \E h8 \in {previous_hash(HasherDefault, h7)} :
                last' = [last EXCEPT !.loops = [cur |-> h8, i |-> last.loops.i + 8,
                                                brk |-> FALSE]]
    /\ UNCHANGED <<hasher, hcall, poh, clock, timing, records, calls,
                   poh2, clock2, timing2, records2, handoff, worker, gossip>>

\* One pass of the remainder loop; when it is over, core builds the Record,
\* advances the counters and returns.
RemainderPass ==
    /\ last.pc = "rest"
    /\ \E st \in {StepPass(HasherDefault, last.loops, DEFAULT_HASHES_PER_REV)} :
            IF ~st.brk
            THEN /\ last' = [last EXCEPT !.loops = st]
                 /\ UNCHANGED <<poh, records>>
            ELSE \E out \in {CoreFinish(poh, MakeRecord(poh, st.cur, clock,
                                                        calls[Len(calls)]))} :
                    /\ ~out.panic
                    /\ poh' = out.poh
                    /\ records' = Append(records, out.record)
                    /\ last' = [last EXCEPT !.pc = "done", !.loops = st]
    /\ UNCHANGED <<hasher, hcall, clock, timing, calls,
                   poh2, clock2, timing2, records2, handoff, worker, gossip>>

NextPaced ==
    \/ EnterTick
    \/ ClockAdvance
    \/ WaitOver
    \/ MainLoopPass
    \/ RemainderPass

\* The clock keeps advancing, and the thread of the engine keeps running.
SpecPaced ==
    /\ InitPaced /\ [][NextPaced]_vars
    /\ WF_vars(ClockAdvance) /\ WF_vars(WaitOver)
    /\ WF_vars(MainLoopPass) /\ WF_vars(RemainderPass)

(***************************************************************************)
(* C32. Every tick runs to completion: while the clock keeps advancing and *)
(* rev_count is below its maximum, each call of next_rev or insert_event   *)
(* eventually returns, with exactly one Record; it waits in the pacing     *)
(* step only, where the spin loop and the sleep end once the deadline is   *)
(* reached, and the hash extension makes its DEFAULT_HASHES_PER_REV        *)
(* iterations and ends.                                                    *)
(***************************************************************************)
C32_TicksComplete ==
    /\ [](Len(calls) - Len(records) = IF last.pc \in {"idle", "done"} THEN 0 ELSE 1)
    /\ [](last.pc = "done" =>
            /\ last.loops.i = DEFAULT_HASHES_PER_REV
            /\ records[Len(records)].hash = last.loops.cur)
    /\ [](last.pc \in {"main", "rest"} => clock >= last.wake_us)
    /\ \A k \in 1..MaxTicks :
            (Len(calls) = k) ~> (Len(records) = k /\ last.pc = "done")

\* The third call has waited in a sleep, made its 12,500 iterations and returned
\* the third Record; the call before it carried a payload.
C32_Witness ==
    /\ Len(calls) = 3 /\ Len(records) = 3
    /\ last.pc = "done"
    /\ last.mode = "sleep"
    /\ last.loops.i = 12500
    /\ records[2].event = Some(<<7>>)
    /\ records[3].hash = poh.current_hash

(***************************************************************************)
(* Tickets (protocol/src/ticket.rs, and the copy in protocol/src/lib.rs).  *)
(* Text and bytes are sequences of byte values; a string is its ASCII      *)
(* codes.  A TopicId is TopicLen bytes where the code has 32, and a        *)
(* NodeAddr is one number where the code has a node id with its addresses. *)
(***************************************************************************)
\* serde_json::to_vec of a sequence of numbers, each in decimal digits: [a,b,c]
RECURSIVE JsonItems(_)
JsonItems(xs) ==
    IF Len(xs) = 0 THEN <<>>
    ELSE IF Len(xs) = 1 THEN Decimal(xs[1])
    ELSE Decimal(xs[1]) \o <<44>> \o JsonItems(Tail(xs))

JsonArray(xs) == <<91>> \o JsonItems(xs) \o <<93>>

\* The text {"topic": and the text ,"nodes": of the serialized struct.
TopicKey == <<123, 34, 116, 111, 112, 105, 99, 34, 58>>
NodesKey == <<44, 34, 110, 111, 100, 101, 115, 34, 58>>

\* Ticket::to_bytes: {"topic":[..],"nodes":[..]}
to_bytes(self) ==
    TopicKey \o JsonArray(self.topic) \o NodesKey \o JsonArray(self.nodes) \o <<125>>

HasPrefixAt(bytes, pos, lit) ==
    /\ pos + Len(lit) - 1 <= Len(bytes)
    /\ \A i \in 1..Len(lit) : bytes[pos + i - 1] = lit[i]

\* The digits at pos: their value and the position after them.
RECURSIVE ParseDigits(_, _, _)
ParseDigits(bytes, pos, acc) ==
    IF pos <= Len(bytes) /\ bytes[pos] \in 48..57 /\ acc <= 255
    THEN ParseDigits(bytes, pos + 1, acc * 10 + (bytes[pos] - 48))
    ELSE [val |-> acc, pos |-> pos]

\* The items of an array from pos on, up to and including its closing bracket.
RECURSIVE ParseItems(_, _, _)
ParseItems(bytes, pos, vals) ==
    IF pos > Len(bytes) \/ bytes[pos] \notin 48..57
    THEN [ok |-> FALSE]
    ELSE LET num == ParseDigits(bytes, pos, 0)
         IN  IF num.pos > Len(bytes) \/ num.val > 255 THEN [ok |-> FALSE]
             ELSE IF bytes[num.pos] = 93
             THEN [ok |-> TRUE, vals |-> Append(vals, num.val), pos |-> num.pos + 1]
             ELSE IF bytes[num.pos] = 44
             THEN ParseItems(bytes, num.pos + 1, Append(vals, num.val))
             ELSE [ok |-> FALSE]

ParseArray(bytes, pos) ==
    IF ~HasPrefixAt(bytes, pos, <<91>>) THEN [ok |-> FALSE]
    ELSE IF HasPrefixAt(bytes, pos + 1, <<93>>)
    THEN [ok |-> TRUE, vals |-> <<>>, pos |-> pos + 2]
    ELSE ParseItems(bytes, pos + 1, <<>>)

\* Ticket::from_bytes: the struct that to_bytes wrote is read back; anything
\* else is an error.
from_bytes(bytes) ==
    IF ~HasPrefixAt(bytes, 1, TopicKey) THEN [ok |-> FALSE]
    ELSE LET topic == ParseArray(bytes, Len(TopicKey) + 1)
         IN  IF ~topic.ok \/ Len(topic.vals) # TopicLen
                         \/ ~HasPrefixAt(bytes, topic.pos, NodesKey)
             THEN [ok |-> FALSE]
             ELSE LET nodes == ParseArray(bytes, topic.pos + Len(NodesKey))
                  IN  IF ~nodes.ok \/ ~HasPrefixAt(bytes, nodes.pos, <<125>>)
                                   \/ nodes.pos # Len(bytes)
                      THEN [ok |-> FALSE]
                      ELSE [ok |-> TRUE,
                            value |-> [topic |-> topic.vals, nodes |-> nodes.vals]]

\* The base32 alphabet of RFC 4648: A..Z for 0..25, 2..7 for 26..31.
Base32Symbol(v) == IF v < 26 THEN 65 + v ELSE 24 + v
Base32Value(c) == IF c \in 65..90 THEN c - 65 ELSE IF c \in 50..55 THEN c - 24 ELSE -1

\* Bit k (from 0, most significant first) of a sequence of units of width bits;
\* zero past the end.
BitAt(units, width, k) ==
    IF k \div width + 1 > Len(units) THEN 0
    ELSE (units[k \div width + 1] \div (2 ^ (width - 1 - (k % width)))) % 2

\* The unit of width bits that starts at bit k of a sequence of units of
\* width `from`.
Regroup(units, from, width, k) ==
    LET RECURSIVE Acc(_, _)
        Acc(b, v) == IF b = width THEN v
                     ELSE Acc(b + 1, 2 * v + BitAt(units, from, k + b))
    IN  Acc(0, 0)

\* data_encoding::BASE32_NOPAD.encode: five bits a symbol, the last symbol
\* filled with zero bits, no padding characters.
BASE32_NOPAD_encode(bytes) ==
    [j \in 1..((8 * Len(bytes) + 4) \div 5) |->
        Base32Symbol(Regroup(bytes, 8, 5, 5 * (j - 1)))]

\* data_encoding::BASE32_NOPAD.decode: an error on a character outside the
\* alphabet, on a length no encoding has, and on trailing bits that are not zero.
BASE32_NOPAD_decode(text) ==
    IF \E i \in 1..Len(text) : Base32Value(text[i]) < 0 THEN [ok |-> FALSE]
    ELSE IF (5 * Len(text)) % 8 >= 5 THEN [ok |-> FALSE]
    ELSE LET values == [i \in 1..Len(text) |-> Base32Value(text[i])]
             n == (5 * Len(text)) \div 8
         IN  IF \E k \in (8 * n)..(5 * Len(text) - 1) : BitAt(values, 5, k) # 0
             THEN [ok |-> FALSE]
             ELSE [ok |-> TRUE,
                   value |-> [j \in 1..n |-> Regroup(values, 5, 8, 8 * (j - 1))]]

\* String::make_ascii_lowercase changes the string in place and returns ().
make_ascii_lowercase(text) ==
    [i \in 1..Len(text) |-> IF text[i] \in 65..90 THEN text[i] + 32 ELSE text[i]]

\* str::to_ascii_uppercase
to_ascii_uppercase(text) ==
    [i \in 1..Len(text) |-> IF text[i] \in 97..122 THEN text[i] - 32 ELSE text[i]]

\* The text that {:?} writes for the unit value: ()
UnitDebug == <<40, 41>>

\* impl Display for Ticket in ticket.rs: what is formatted is the value that
\* make_ascii_lowercase returns, the unit value; the lower-cased text is a
\* temporary nobody reads.
fmt(self) == UnitDebug

\* impl Display for Ticket in lib.rs: the text is lower-cased in place, then
\* written.
lib_fmt(self) == make_ascii_lowercase(BASE32_NOPAD_encode(to_bytes(self)))

\* impl FromStr for Ticket (the same in both files)
from_str(s) ==
    LET bytes == BASE32_NOPAD_decode(to_ascii_uppercase(s))
    IN  IF ~bytes.ok THEN [ok |-> FALSE] ELSE from_bytes(bytes.value)


(***************************************************************************)
(* Gossip peers (protocol/src/protocol.rs).  What the transport does is    *)
(* outside the code: each of its calls that returns a Result either        *)
(* succeeds or fails.  A GossipSender is known by the topic it was opened  *)
(* on; a message by its sender and its kind.                               *)
(***************************************************************************)
Peers == {1, 2}
\* TopicId::from_bytes(rand::random()): any topic.
Topics == {[i \in 1..TopicLen |-> 0], [i \in 1..TopicLen |-> IF i = 1 THEN 7 ELSE 255]}
\* Tickets with no node address, with one and with two.
Tickets == [topic : Topics, nodes : {<<>>, <<1>>, <<2, 1>>}]

Ok(x) == [ok |-> TRUE, value |-> x]
Err(msg) == [ok |-> FALSE, err |-> msg]
NotConnected == Err("Not connected to a chat room.")

\* Protocol::new: tx: None, topic: None
ProtocolNew == [tx |-> None, topic |-> None]

Ping(id) == [from |-> id, body |-> "Ping"]

\* A listen that sets tx and leaves topic unset.
listen_topic_unset(self, id, topic, fail) ==
    IF fail = "subscribe"
    THEN [self |-> self, out |-> <<>>, result |-> Err("Failed to subscribe to topic.")]
    ELSE LET joined == [self EXCEPT !.tx = Some(topic)]
         IN  IF fail = "broadcast"
             THEN [self |-> joined, out |-> <<>>,
                   result |-> Err("Failed to broadcast ping message.")]
             ELSE IF fail = "node_addr"
             THEN [self |-> joined, out |-> <<Ping(id)>>,
                   result |-> Err("Failed to get node address.")]
             ELSE [self |-> joined, out |-> <<Ping(id)>>,
                   result |-> Ok([topic |-> topic, nodes |-> <<id>>])]

\* Protocol::listen on the peer with node id `id`; `topic` is the random topic,
\* `fail` the call of the transport that fails, if any.
listen(self, id, topic, fail) ==
    IF fail = "subscribe"
    THEN [self |-> self, out |-> <<>>, result |-> Err("Failed to subscribe to topic.")]
    ELSE LET joined == [self EXCEPT !.tx = Some(topic), !.topic = Some(topic)]
         IN  IF fail = "broadcast"
             THEN [self |-> joined, out |-> <<>>,
                   result |-> Err("Failed to broadcast ping message.")]
             ELSE IF fail = "node_addr"
             THEN [self |-> joined, out |-> <<Ping(id)>>,
                   result |-> Err("Failed to get node address.")]
             ELSE [self |-> joined, out |-> <<Ping(id)>>,
                   result |-> Ok([topic |-> topic, nodes |-> <<id>>])]

\* Protocol::dial
dial(self, id, ticket, fail) ==
    LET parsed == from_str(ticket)
    IN  IF ~parsed.ok
        THEN [self |-> self, out |-> <<>>, result |-> Err("Failed to parse ticket.")]
        ELSE IF fail = "add_node_addr" /\ parsed.value.nodes # <<>>
        THEN [self |-> self, out |-> <<>>, result |-> Err("Failed to add node address.")]
        ELSE IF fail = "subscribe"
        THEN [self |-> self, out |-> <<>>, result |-> Err("Failed to subscribe and join.")]
        ELSE LET topic == parsed.value.topic
                 joined == [self EXCEPT !.tx = Some(topic), !.topic = Some(topic)]
             IN  IF fail = "broadcast"
                 THEN [self |-> joined, out |-> <<>>,
                       result |-> Err("Failed to broadcast ping message.")]
                 ELSE [self |-> joined, out |-> <<Ping(id)>>, result |-> Ok(<<>>)]

\* Protocol::broadcast and Protocol::custom_broadcast: body is "Message" or
\* "Custom".
broadcast(self, id, body, fail) ==
    IF IsSome(self.tx) /\ IsSome(self.topic)
    THEN IF fail = "broadcast"
         THEN [self |-> self, out |-> <<>>,
               result |-> Err(IF body = "Message" THEN "Failed to broadcast text message."
                                                  ELSE "Failed to broadcast custom message.")]
         ELSE [self |-> self, result |-> Ok(<<>>),
               out |-> <<[from |-> id, body |-> body]>>]
    ELSE [self |-> self, out |-> <<>>, result |-> NotConnected]

\* Protocol::get_current_node_topic
get_current_node_topic(self) == self.topic

\* Two peers, just constructed.  `sent` counts the messages each peer has put
\* on the network, `succeeded` remembers the peers on which a listen or a dial
\* has returned Ok.
InitGossip ==
    /\ HasherIdle
    /\ poh = NoEngine /\ clock = 0 /\ timing = <<>>
    /\ records = <<>> /\ calls = <<>> /\ last = NoCall
    /\ poh2 = NoEngine /\ clock2 = 0 /\ timing2 = <<>> /\ records2 = <<>>
    /\ handoff = [upto |-> 0, results |-> <<>>] /\ worker = [state |-> "none"]
    /\ gossip = [peers |-> [p \in Peers |-> ProtocolNew], sent |-> [p \in Peers |-> 0],
                 succeeded |-> {}]

GossipOnly == UNCHANGED <<hasher, hcall, poh, clock, timing, records, calls,
                          poh2, clock2, timing2, records2, handoff, worker>>

\* The call returned r on peer p.
Returned(p, r) ==
    /\ gossip.sent[p] + Len(r.out) <= MaxSent
    /\ gossip' = [gossip EXCEPT !.peers[p] = r.self, !.sent[p] = @ + Len(r.out),
                                !.succeeded = IF r.result.ok THEN @ \cup {p} ELSE @]

\* peer.listen().await
Listen ==
    /\ \E p \in Peers, topic \in Topics,
          fail \in {"none", "subscribe", "broadcast", "node_addr"} :
          \E r \in {listen(gossip.peers[p], p, topic, fail)} :
            /\ Returned(p, r)
            /\ last' = [op |-> "listen", peer |-> p, result |-> r.result]
    /\ GossipOnly

\* Ticket::new(topic, nodes)
TicketNew ==
    /\ \E t \in Tickets : last' = [op |-> "new", result |-> Ok(t)]
    /\ UNCHANGED gossip
    /\ GossipOnly

\* ticket.to_string(), of the Ticket that listen returned or that was built:
\* Display as ticket.rs has it.
to_string ==
    /\ last.op \in {"listen", "new"}
    /\ last.result.ok
    /\ last' = [op |-> "to_string", by |-> "ticket.rs", ticket |-> last.result.value,
                result |-> fmt(last.result.value)]
    /\ UNCHANGED gossip
    /\ GossipOnly

\* The same with Display as lib.rs has it.
lib_to_string ==
    /\ last.op \in {"listen", "new"}
    /\ last.result.ok
    /\ last' = [op |-> "to_string", by |-> "lib.rs", ticket |-> last.result.value,
                result |-> lib_fmt(last.result.value)]
    /\ UNCHANGED gossip
    /\ GossipOnly

\* peer.dial(&text).await, with the text just rendered from a Ticket.
Dial ==
    /\ last.op = "to_string"
    /\ \E p \in Peers, fail \in {"none", "add_node_addr", "subscribe", "broadcast"} :
          \E r \in {dial(gossip.peers[p], p, last.result, fail)} :
            /\ Returned(p, r)
            /\ last' = [op |-> "dial", peer |-> p, by |-> last.by, ticket |-> last.ticket,
                        parsed |-> from_str(last.result), result |-> r.result]
    /\ GossipOnly

\* peer.broadcast(text).await
Broadcast ==
    /\ \E p \in Peers, fail \in {"none", "broadcast"} :
          \E r \in {broadcast(gossip.peers[p], p, "Message", fail)} :
            /\ Returned(p, r)
            /\ last' = [op |-> "broadcast", peer |-> p, result |-> r.result]
    /\ GossipOnly

\* peer.custom_broadcast(payload).await
CustomBroadcast ==
    /\ \E p \in Peers, fail \in {"none", "broadcast"} :
          \E r \in {broadcast(gossip.peers[p], p, "Custom", fail)} :
            /\ Returned(p, r)
            /\ last' = [op |-> "custom_broadcast", peer |-> p, result |-> r.result]
    /\ GossipOnly

\* peer.get_current_node_topic()
GetCurrentNodeTopic ==
    /\ \E p \in Peers :
            last' = [op |-> "get_current_node_topic", peer |-> p,
                     result |-> get_current_node_topic(gossip.peers[p])]
    /\ UNCHANGED gossip
    /\ GossipOnly

NextGossip ==
    \/ Listen
    \/ TicketNew
    \/ to_string
    \/ lib_to_string
    \/ Dial
    \/ Broadcast
    \/ CustomBroadcast
    \/ GetCurrentNodeTopic

SpecGossip == InitGossip /\ [][NextGossip]_vars

(***************************************************************************)
(* C37. A Ticket rendered with Display and parsed back with FromStr: the   *)
(* parse succeeds and gives a Ticket with the same topic and the same      *)
(* nodes, so the rendered ticket of a listen can be dialled.               *)
(***************************************************************************)
C37_TicketRoundTrip ==
    last.op = "dial" =>
        /\ last.parsed.ok
        /\ last.parsed.value.topic = last.ticket.topic
        /\ last.parsed.value.nodes = last.ticket.nodes
        /\ last.result # Err("Failed to parse ticket.")

\* What holds of the copy in lib.rs.
LibTicketRoundTrip ==
    last.op = "dial" /\ last.by = "lib.rs" =>
        /\ last.parsed = Ok(last.ticket)
        /\ last.result # Err("Failed to parse ticket.")

(***************************************************************************)
(* Connection state of a peer.                                             *)
(***************************************************************************)
\* The step is a broadcast or a custom_broadcast on peer p.
BroadcastOn(p) == last'.op \in {"broadcast", "custom_broadcast"} /\ last'.peer = p

\* The step is a listen or a dial on peer p that returned Ok.
ConnectedOn(p) == last'.op \in {"listen", "dial"} /\ last'.peer = p /\ last'.result.ok

\* The topic of that listen or dial.
TopicOf(call) == IF call.op = "listen" THEN call.result.value.topic ELSE call.parsed.value.topic

Unset(self) == ~IsSome(self.tx) \/ ~IsSome(self.topic)

\* From a successful listen or dial on, tx and topic are set, the topic is
\* what get_current_node_topic returns, and broadcasting no longer fails for
\* want of a connection.
Connected(p) ==
    /\ ConnectedOn(p) =>
            /\ gossip'.peers[p].tx = Some(TopicOf(last'))
            /\ gossip'.peers[p].topic = Some(TopicOf(last'))
            /\ get_current_node_topic(gossip'.peers[p]) = Some(TopicOf(last'))
    /\ p \in gossip.succeeded =>
            /\ ~Unset(gossip.peers[p]) /\ ~Unset(gossip'.peers[p])
            /\ BroadcastOn(p) => last'.result # NotConnected
            /\ last'.op = "get_current_node_topic" /\ last'.peer = p =>
                    last'.result = gossip.peers[p].topic

(***************************************************************************)
(* C38. As stated: on a peer where no listen or dial has succeeded, tx and *)
(* topic are unset, and broadcast and custom_broadcast return the error    *)
(* "Not connected to a chat room." and send nothing; after a successful    *)
(* listen or dial both are set, get_current_node_topic returns that topic  *)
(* and the two no longer return that error.                                *)
(***************************************************************************)
C38_ConnectionState ==
    [][\A p \in Peers :
        /\ BroadcastOn(p) /\ p \notin gossip.succeeded =>
                /\ Unset(gossip.peers[p])
                /\ last'.result = NotConnected
                /\ gossip'.sent = gossip.sent
        /\ Connected(p)]_vars

(***************************************************************************)
(* C38, amended.  On a peer whose tx or topic is unset, broadcast and      *)
(* custom_broadcast return the error "Not connected to a chat room." and   *)
(* send nothing; both are unset until a listen or a dial on the peer has   *)
(* joined its topic, whether or not that call went on to return Ok.  After *)
(* a successful listen or dial both are set, get_current_node_topic        *)
(* returns that topic and the two no longer return that error.             *)
(***************************************************************************)
C38_ConnectionStateJoined ==
    [][\A p \in Peers :
        /\ BroadcastOn(p) /\ Unset(gossip.peers[p]) =>
                /\ last'.result = NotConnected
                /\ gossip'.sent = gossip.sent
        /\ BroadcastOn(p) /\ ~Unset(gossip.peers[p]) => last'.result # NotConnected
        /\ Unset(gossip.peers[p]) /\ ~Unset(gossip'.peers[p]) =>
                /\ last'.op \in {"listen", "dial"} /\ last'.peer = p
                /\ \/ last'.result.ok
                   \/ last'.result \in {Err("Failed to broadcast ping message."),
                                        Err("Failed to get node address.")}
        /\ Connected(p)]_vars

\* Peer 1 listened and its ticket came back, then it broadcast; peer 2, never
\* connected, was refused a custom_broadcast and sent nothing.
C38_Witness ==
    /\ gossip.succeeded = {1}
    /\ gossip.peers[1].topic = Some([i \in 1..TopicLen |-> IF i = 1 THEN 7 ELSE 255])
    /\ gossip.peers[2] = ProtocolNew
    /\ gossip.sent = [p \in Peers |-> IF p = 1 THEN 2 ELSE 0]
    /\ last = [op |-> "custom_broadcast", peer |-> 2, result |-> NotConnected]

====
